---- MODULE Spec2Model ----
(***************************************************************************)
(* Verification model of the protocols-rs CRDT library: logical clocks     *)
(* (VTime, DottedVersion, HybridTime), the dot kernel behind ORSet,        *)
(* MVRegister and ORMap, the convergent counters (GCounter, PNCounter,     *)
(* BCounter) and the last-write-wins register.                             *)
(***************************************************************************)
EXTENDS Integers, Sequences, FiniteSets, TLC

\* ------------------------------------------------------------------ bounds
\* Replica ids used throughout the repository's tests.
A == 1
B == 2
C == 3
Replicas == {A, B, C}

NumElems == 2
MaxOps == 3
LiveMaxOps == 2
MaxMsgs == 2
MaxAdd == 1
BMaxAdd == 3
MaxTransfer == 1
MaxWall == 17
UnionMaxOps == 2
NumThreads == 2
HlcMaxCalls == 3
ClkMaxOps == 3
MaxSeq == 1
DvvMaxOps == 1

Elems == 1..NumElems

VARIABLES
    kind,       \* the type every replica holds: "orset", "mvreg", "gcounter",
                \* "pncounter", "bcounter", "lww", "ormap", "hlc", "mtime" or "dvv"
    sync,       \* how replicas exchange updates in this run: "state" or "delta"
    ks,         \* ks[r]: the Kernel inside replica r's ORSet / MVRegister
    pn,         \* pn[r]: replica r's PNCounter (a GCounter is its inc half)
    bc,         \* bc[r]: replica r's BCounter
    lww,        \* lww[r]: replica r's LWWRegister
    latest,     \* latest[r]: LATEST, the hybrid clock of replica r's process
    om,         \* om[r]: replica r's ORMap<K, ORSet<T>>
    budget,     \* local operations still allowed
    stopped,    \* TRUE once local operations have stopped
    forked,     \* TRUE once B was cloned from A to follow A's deltas
    chan,       \* the deltas extracted so far, in extraction order
    applied,    \* indexes of chan that B applied since the clone
    issued,     \* net sum of every counter increment issued so far
    threads,    \* threads[t]: where thread t stands inside HybridTime::now / sync
    hist,       \* the completed now() and sync() calls of the process, in order
                \* ("hlc"); the latest assign: caller, entry found, time read ("lww")
    clk         \* the MTime of the process ("mtime"); clk[r]: replica r's
                \* DottedVersion ("dvv")

vars == <<kind, sync, ks, pn, bc, lww, latest, om, budget, stopped, forked, chan, applied, issued,
          threads, hist, clk>>

\* ----------------------------------------------------------------- helpers
None == <<>>
Some(x) == <<x>>
IsSome(o) == o # <<>>
Unwrap(o) == o[1]

Max(a, b) == IF a >= b THEN a ELSE b

Put(f, k, v) == [x \in (DOMAIN f) \cup {k} |-> IF x = k THEN v ELSE f[x]]
Restrict(f, S) == [x \in S |-> f[x]]
EmptyMap == [x \in {} |-> 0]

SeqContains(s, x) == \E i \in 1..Len(s) : s[i] = x
Range(s) == {s[i] : i \in 1..Len(s)}

RECURSIVE SortedSeq(_)
SortedSeq(S) ==
    IF S = {} THEN <<>>
    ELSE LET m == CHOOSE x \in S : \A y \in S : x <= y
         IN <<m>> \o SortedSeq(S \ {m})

RECURSIVE Flatten(_)
Flatten(ss) == IF ss = <<>> THEN <<>> ELSE Head(ss) \o Flatten(Tail(ss))

\* ------------------------------------------------------------------- VTime
\* A vector clock is a partial map ReplicaId -> count (BTreeMap<ReplicaId, u64>).
VGet(v, id) == IF id \in DOMAIN v THEN v[id] ELSE 0

VIncBy(v, id, delta) ==
    IF delta > 0
    THEN [vt |-> Put(v, id, VGet(v, id) + delta), dot |-> <<id, VGet(v, id) + delta>>]
    ELSE [vt |-> v, dot |-> <<id, VGet(v, id)>>]

VInc(v, id) == VIncBy(v, id, 1)

VSet(v, dot) ==
    IF dot[2] > VGet(v, dot[1])
    THEN [vt |-> Put(v, dot[1], dot[2]), changed |-> TRUE]
    ELSE [vt |-> Put(v, dot[1], VGet(v, dot[1])), changed |-> FALSE]

VContains(v, dot) == VGet(v, dot[1]) >= dot[2]

\* a merge that adds the two counts instead of keeping the larger
VMergeVtSum(a, b) ==
    [k \in (DOMAIN a) \cup (DOMAIN b) |-> VGet(a, k) + VGet(b, k)]

\* a merge that takes other's count for every key other holds
VMergeVtOverwrite(a, b) ==
    [k \in (DOMAIN a) \cup (DOMAIN b) |-> IF k \in DOMAIN b THEN b[k] ELSE VGet(a, k)]

\* VTime::merge: every key of other is entered into self (or_default) and
\* raised when self's count is strictly smaller.
VMergeVt(a, b) ==
    [k \in (DOMAIN a) \cup (DOMAIN b) |->
        IF k \in DOMAIN b /\ VGet(a, k) < b[k] THEN b[k] ELSE VGet(a, k)]

\* a merge that reports a change for a count it merely equals
VMergeChangedOnEqual(a, b) == \E k \in DOMAIN b : VGet(a, k) <= b[k]

VMergeChanged(a, b) == \E k \in DOMAIN b : VGet(a, k) < b[k]

VMerge(a, b) == [vt |-> VMergeVt(a, b), changed |-> VMergeChanged(a, b)]

VSum(v) ==
    LET RECURSIVE S(_)
        S(D) == IF D = {} THEN 0
                ELSE LET k == CHOOSE x \in D : TRUE IN v[k] + S(D \ {k})
    IN S(DOMAIN v)

\* u64::cmp
U64Cmp(x, y) == IF x < y THEN "Less" ELSE IF x > y THEN "Greater" ELSE "Equal"

\* the loop of VTime::partial_cmp: ka and kb are the keys the two iterators
\* still have to yield, result is Some of an Ordering, or None
RECURSIVE PartialCmpLoop(_, _, _, _, _)
PartialCmpLoop(a, ka, b, kb, result) ==
    IF result = None THEN None
    ELSE IF ka = <<>> /\ kb = <<>> THEN result
    ELSE IF ka = <<>>
    THEN IF result = Some("Greater") THEN None
         ELSE IF result = Some("Equal") THEN Some("Less")
         ELSE result
    ELSE IF kb = <<>>
    THEN IF result = Some("Less") THEN None
         ELSE IF result = Some("Equal") THEN Some("Greater")
         ELSE result
    ELSE IF Head(ka) = Head(kb)
    THEN LET c == U64Cmp(a[Head(ka)], b[Head(kb)])
         IN PartialCmpLoop(a, Tail(ka), b, Tail(kb),
                IF c = "Greater" /\ result = Some("Less") THEN None
                ELSE IF c = "Less" /\ result = Some("Greater") THEN None
                ELSE IF result = Some("Equal") THEN Some(c)
                ELSE result)
    ELSE None

VPartialCmp(a, b) ==
    PartialCmpLoop(a, SortedSeq(DOMAIN a), b, SortedSeq(DOMAIN b), Some("Equal"))

\* VTime::zip: the triples (id, left, right) the Zip iterator yields, a clock
\* that lacks the id contributing 0
RECURSIVE ZipNext(_, _, _, _)
ZipNext(a, ka, b, kb) ==
    IF ka = <<>> /\ kb = <<>> THEN <<>>
    ELSE IF kb = <<>> THEN <<<<Head(ka), a[Head(ka)], 0>>>> \o ZipNext(a, Tail(ka), b, kb)
    ELSE IF ka = <<>> THEN <<<<Head(kb), 0, b[Head(kb)]>>>> \o ZipNext(a, ka, b, Tail(kb))
    ELSE IF Head(ka) = Head(kb)
    THEN <<<<Head(ka), a[Head(ka)], b[Head(kb)]>>>> \o ZipNext(a, Tail(ka), b, Tail(kb))
    ELSE IF Head(ka) < Head(kb)
    THEN <<<<Head(ka), a[Head(ka)], 0>>>> \o ZipNext(a, Tail(ka), b, kb)
    ELSE <<<<Head(kb), 0, b[Head(kb)]>>>> \o ZipNext(a, ka, b, Tail(kb))

\* a zip that walks the left clock only
VZipLeft(a, b) == ZipNext(a, SortedSeq(DOMAIN a), b, <<>>)

VZip(a, b) == ZipNext(a, SortedSeq(DOMAIN a), b, SortedSeq(DOMAIN b))

\* FromIterator for VTime: later pairs overwrite earlier ones
RECURSIVE VCollect(_)
VCollect(pairs) ==
    IF pairs = <<>> THEN EmptyMap
    ELSE Put(VCollect(SubSeq(pairs, 1, Len(pairs) - 1)),
             pairs[Len(pairs)][1], pairs[Len(pairs)][2])

VMin(a, b) ==
    LET z == VZip(a, b)
    IN VCollect([i \in 1..Len(z) |-> <<z[i][1], IF z[i][2] <= z[i][3] THEN z[i][2] ELSE z[i][3]>>])

VMax(a, b) ==
    LET z == VZip(a, b)
    IN VCollect([i \in 1..Len(z) |-> <<z[i][1], Max(z[i][2], z[i][3])>>])

\* ------------------------------------------------------------------- MTime
\* A matrix clock is a partial map PID -> VTime (BTreeMap<PID, VTime>).
MDefault == EmptyMap

MReplace(m, id, time) == Put(m, id, time)

MMergeVtime(m, id, time) ==
    LET e == IF id \in DOMAIN m THEN m[id] ELSE EmptyMap
    IN [m |-> Put(m, id, VMergeVt(e, time)), changed |-> VMergeChanged(e, time)]

\* the folds of MTime::min and MTime::max over the rows, in key order,
\* starting from VTime::default()
RECURSIVE MMinFold(_, _, _)
MMinFold(m, ids, acc) ==
    IF ids = <<>> THEN acc ELSE MMinFold(m, Tail(ids), VMin(acc, m[Head(ids)]))

MMin(m) == MMinFold(m, SortedSeq(DOMAIN m), EmptyMap)

RECURSIVE MMaxFold(_, _, _)
MMaxFold(m, ids, acc) ==
    IF ids = <<>> THEN acc ELSE MMaxFold(m, Tail(ids), VMax(acc, m[Head(ids)]))

MMax(m) == MMaxFold(m, SortedSeq(DOMAIN m), EmptyMap)

\* ----------------------------------------------------------- DottedVersion
\* DottedVersion(VTime, BTreeSet<Dot>) as a record [vt, cloud].
DotLess(d, e) == d[1] < e[1] \/ (d[1] = e[1] /\ d[2] < e[2])

RECURSIVE SortedDots(_)
SortedDots(S) ==
    IF S = {} THEN <<>>
    ELSE LET m == CHOOSE x \in S : \A y \in S : x = y \/ DotLess(x, y)
         IN <<m>> \o SortedDots(S \ {m})

DVDefault == [vt |-> EmptyMap, cloud |-> {}]

DVContains(dv, dot) == VContains(dv.vt, dot) \/ dot \in dv.cloud

RECURSIVE CompressFold(_, _)
CompressFold(acc, dots) ==
    IF dots = <<>> THEN acc
    ELSE LET d == Head(dots)
         IN IF d[2] = VGet(acc, d[1]) + 1
            THEN CompressFold(VInc(acc, d[1]).vt, Tail(dots))
            ELSE CompressFold(acc, Tail(dots))

DVCompress(dv) ==
    LET vtime == CompressFold(dv.vt, SortedDots(dv.cloud))
    IN [vt |-> vtime, cloud |-> {d \in dv.cloud : ~VContains(vtime, d)}]

\* an inc_by that hands out the dot and forgets it
DVIncByStale(dv, key, delta) == [dv |-> dv, dot |-> VIncBy(dv.vt, key, delta).dot]

DVIncBy(dv, key, delta) ==
    [dv |-> [dv EXCEPT !.vt = VIncBy(dv.vt, key, delta).vt],
     dot |-> VIncBy(dv.vt, key, delta).dot]

DVInc(dv, key) == DVIncBy(dv, key, 1)

DVMerge(self, other) ==
    LET vm == VMerge(self.vt, other.vt)
        cloudChanged == ~(other.cloud \subseteq self.cloud)
        joined == [vt |-> vm.vt, cloud |-> self.cloud \cup other.cloud]
    IN [dv |-> IF cloudChanged THEN DVCompress(joined) ELSE joined,
        changed |-> vm.changed \/ cloudChanged]

\* ------------------------------------------------------------------ Kernel
\* Kernel<T> = [seen : DottedVersion, entries : T -> Seq(Dot), delta : Option<Delta>]
\* Delta<T>  = [inserts : T -> Seq(Dot), removals : Seq(Dot)]
DeltaDefault == [inserts |-> EmptyMap, removals |-> <<>>]

KernelDefault == [seen |-> DVDefault, entries |-> EmptyMap, delta |-> None]

EntryOrDefault(m, k) == IF k \in DOMAIN m THEN m[k] ELSE <<>>

\* push every dot of `dots` that the list does not hold yet, in order
\* pushing without the contains test
PushAll(e, dots) == e \o dots

RECURSIVE PushNew(_, _)
PushNew(e, dots) ==
    IF dots = <<>> THEN e
    ELSE PushNew(IF SeqContains(e, Head(dots)) THEN e ELSE Append(e, Head(dots)),
                 Tail(dots))

DeltaInsert(d, value, dot) ==
    [d EXCEPT !.inserts = Put(d.inserts, value, PushNew(EntryOrDefault(d.inserts, value), <<dot>>))]

DeltaRemove(d, dots) == [d EXCEPT !.removals = PushNew(d.removals, dots)]

TakeOrDefault(o) == IF IsSome(o) THEN Unwrap(o) ELSE DeltaDefault

KInsert(k, id, value) ==
    LET inc == DVInc(k.seen, id)
    IN [seen |-> inc.dv,
        entries |-> Put(k.entries, value, Append(EntryOrDefault(k.entries, value), inc.dot)),
        delta |-> Some(DeltaInsert(TakeOrDefault(k.delta), value, inc.dot))]

KRemove(k, value) ==
    [seen |-> k.seen,
     entries |-> Restrict(k.entries, (DOMAIN k.entries) \ {value}),
     delta |-> Some(DeltaRemove(TakeOrDefault(k.delta), EntryOrDefault(k.entries, value)))]

KClear(k) ==
    [seen |-> k.seen,
     entries |-> EmptyMap,
     delta |-> Some(DeltaRemove(TakeOrDefault(k.delta),
                    Flatten([i \in 1..Cardinality(DOMAIN k.entries) |->
                                k.entries[SortedSeq(DOMAIN k.entries)[i]]])))]

KLen(k) == Cardinality(DOMAIN k.entries)
KIsEmpty(k) == DOMAIN k.entries = {}
KValue(k) == DOMAIN k.entries

Updated(v) == <<"Updated", v>>
Removed(v) == <<"Removed", v>>

\* first loop of merge_with: union the dots of other into self, key by key
RECURSIVE MergeInserts(_, _, _, _)
MergeInserts(entries, other, keys, log) ==
    IF keys = <<>> THEN [entries |-> entries, log |-> log]
    ELSE LET value == Head(keys)
             e == EntryOrDefault(entries, value)
             e2 == PushNew(e, other.entries[value])
         IN MergeInserts(Put(entries, value, e2), other, Tail(keys),
                         log \o [i \in 1..(Len(e2) - Len(e)) |-> Updated(value)])

\* the drain_filter predicate of merge_with
SeenAndAbsent(other, value, dots) ==
    (\E i \in 1..Len(dots) : DVContains(other.seen, dots[i]))
        /\ value \notin DOMAIN other.entries

KMergeWith(self, other) ==
    LET ins == MergeInserts(self.entries, other, SortedSeq(DOMAIN other.entries), <<>>)
        gone == {v \in DOMAIN ins.entries : SeenAndAbsent(other, v, ins.entries[v])}
        sm == DVMerge(self.seen, other.seen)
    IN [k |-> [seen |-> sm.dv,
               entries |-> Restrict(ins.entries, (DOMAIN ins.entries) \ gone),
               delta |-> self.delta],
        changed |-> sm.changed \/ ins.log # <<>> \/ gone # {},
        log |-> ins.log \o [i \in 1..Cardinality(gone) |-> Removed(SortedSeq(gone)[i])]]

\* first loop of merge_with_delta
RECURSIVE DeltaInserts(_, _, _, _, _)
DeltaInserts(entries, seen, inserts, keys, log) ==
    IF keys = <<>> THEN [entries |-> entries, log |-> log]
    ELSE LET value == Head(keys)
             dots == inserts[value]
             unseen == \E i \in 1..Len(dots) : ~DVContains(seen, dots[i])
         IN IF unseen
            THEN DeltaInserts(Put(entries, value, PushNew(EntryOrDefault(entries, value), dots)),
                              seen, inserts, Tail(keys), Append(log, Updated(value)))
            ELSE DeltaInserts(entries, seen, inserts, Tail(keys), log)

\* one drain_filter pass of merge_with_delta, for one removed dot
StripDot(entries, dot) ==
    LET dead == {v \in DOMAIN entries : SeqContains(entries[v], dot) /\ Len(entries[v]) = 1}
    IN [entries |-> [v \in (DOMAIN entries) \ dead |->
                        SelectSeq(entries[v], LAMBDA d : d # dot)],
        log |-> [i \in 1..Cardinality(dead) |-> Removed(SortedSeq(dead)[i])]]

RECURSIVE DeltaRemovals(_, _, _)
DeltaRemovals(entries, removals, log) ==
    IF removals = <<>> THEN [entries |-> entries, log |-> log]
    ELSE LET s == StripDot(entries, Head(removals))
         IN DeltaRemovals(s.entries, Tail(removals), log \o s.log)

\* a merge_with_delta that also records the inserted dots in seen
KMergeWithDeltaAdvancing(self, d) ==
    LET ins == DeltaInserts(self.entries, self.seen, d.inserts,
                            SortedSeq(DOMAIN d.inserts), <<>>)
        rem == DeltaRemovals(ins.entries, d.removals, ins.log)
        dots == UNION {Range(d.inserts[v]) : v \in DOMAIN d.inserts}
    IN [k |-> [seen |-> [self.seen EXCEPT !.cloud = @ \cup dots],
               entries |-> rem.entries, delta |-> self.delta],
        changed |-> ins.log # <<>>,
        log |-> rem.log]

KMergeWithDelta(self, d) ==
    LET ins == DeltaInserts(self.entries, self.seen, d.inserts,
                            SortedSeq(DOMAIN d.inserts), <<>>)
        rem == DeltaRemovals(ins.entries, d.removals, ins.log)
    IN [k |-> [seen |-> self.seen, entries |-> rem.entries, delta |-> self.delta],
        changed |-> ins.log # <<>>,
        log |-> rem.log]

\* a delta() that hands out the buffer without emptying it
KDeltaKeeps(k) == [k |-> k, delta |-> k.delta]

\* DeltaConvergent::delta for Kernel / ORSet / MVRegister: Option::take
KDelta(k) == [k |-> [k EXCEPT !.delta = None], delta |-> k.delta]

\* MVRegister::assign
\* an assign that keeps the payloads already held
MVAssignKeeps(k, id, value) == KInsert(k, id, value)

MVAssign(k, id, value) == KInsert(KClear(k), id, value)

\* ------------------------------------------------- Option<T: Convergent>
\* impl Convergent for Option<T>, for T = gcounter::Delta (a VTime)
OptMerge(self, other) ==
    IF IsSome(other)
    THEN IF IsSome(self)
         THEN [o |-> Some(VMerge(Unwrap(self), Unwrap(other)).vt),
               changed |-> VMerge(Unwrap(self), Unwrap(other)).changed]
         ELSE [o |-> other, changed |-> TRUE]
    ELSE [o |-> self, changed |-> FALSE]

\* ---------------------------------------------------------------- GCounter
\* GCounter(Delta, Option<Delta>) as [v : VTime, delta : Option<VTime>]
GDefault == [v |-> EmptyMap, delta |-> None]

\* GAdd staging the increment instead of the new count in the delta
GAddStagesIncrement(g, id, d) ==
    [v |-> VIncBy(g.v, id, d).vt,
     delta |-> Some(VSet(IF IsSome(g.delta) THEN Unwrap(g.delta) ELSE EmptyMap, <<id, d>>).vt)]

GAdd(g, id, d) ==
    [v |-> VIncBy(g.v, id, d).vt,
     delta |-> Some(VSet(IF IsSome(g.delta) THEN Unwrap(g.delta) ELSE EmptyMap,
                         VIncBy(g.v, id, d).dot).vt)]

GGet(g, id) == VGet(g.v, id)

GMerge(self, other) ==
    [g |-> [v |-> VMerge(self.v, other.v).vt, delta |-> OptMerge(self.delta, other.delta).o],
     changed |-> VMerge(self.v, other.v).changed \/ OptMerge(self.delta, other.delta).changed]

GDelta(g) == [g |-> [g EXCEPT !.delta = None], delta |-> g.delta]

GMergeDelta(g, d) ==
    [g |-> [g EXCEPT !.v = VMerge(g.v, d).vt], changed |-> VMerge(g.v, d).changed]

GValue(g) == VSum(g.v)

\* --------------------------------------------------------------- PNCounter
PNDefault == [inc |-> GDefault, dec |-> GDefault]

PNAdd(p, id, value) ==
    IF value > 0 THEN [p EXCEPT !.inc = GAdd(p.inc, id, value)]
    ELSE IF value < 0 THEN [p EXCEPT !.dec = GAdd(p.dec, id, -value)]
    ELSE p

PNGet(p, id) == GGet(p.inc, id) - GGet(p.dec, id)

PNMerge(self, other) ==
    [p |-> [inc |-> GMerge(self.inc, other.inc).g, dec |-> GMerge(self.dec, other.dec).g],
     changed |-> GMerge(self.inc, other.inc).changed \/ GMerge(self.dec, other.dec).changed]

\* pncounter::Delta(inc, dec); a missing half is gcounter::Delta::default()
PNDelta(p) ==
    [p |-> [inc |-> GDelta(p.inc).g, dec |-> GDelta(p.dec).g],
     delta |-> IF ~IsSome(p.inc.delta) /\ ~IsSome(p.dec.delta) THEN None
               ELSE Some(<<IF IsSome(p.inc.delta) THEN Unwrap(p.inc.delta) ELSE EmptyMap,
                           IF IsSome(p.dec.delta) THEN Unwrap(p.dec.delta) ELSE EmptyMap>>)]

PNMergeDelta(p, d) ==
    [p |-> [inc |-> GMergeDelta(p.inc, d[1]).g, dec |-> GMergeDelta(p.dec, d[2]).g],
     changed |-> GMergeDelta(p.inc, d[1]).changed \/ GMergeDelta(p.dec, d[2]).changed]

PNValue(p) == GValue(p.inc) - GValue(p.dec)

\* ---------------------------------------------------------------- BCounter
\* BCounter = [counter : PNCounter, transfers : (PID, PID) -> u64,
\*             transfers_delta : Option<(PID, PID) -> u64>]
\* A u64 is kept as an integer congruent to it modulo 2^64: a negative integer
\* v stands for the wrapped value 2^64 + v, which exceeds every small amount.
U64Ge(a, n) == a < 0 \/ a >= n
U64Lt(n, a) == a < 0 \/ n < a

BDefault == [counter |-> PNDefault, transfers |-> EmptyMap, transfers_delta |-> None]

\* the fold of BCounter::quota over the transfers, in key order
RECURSIVE QuotaFold(_, _, _, _)
QuotaFold(transfers, keys, id, acc) ==
    IF keys = <<>> THEN acc
    ELSE LET k == Head(keys)
         IN QuotaFold(transfers, Tail(keys), id,
                      IF k[1] = id THEN acc - transfers[k]
                      ELSE IF k[2] = id THEN acc + transfers[k]
                      ELSE acc)

\* whether the fold of BCounter::quota leaves the u64 range on the way: a
\* subtraction below zero, or an addition past 2^64 - 1 (counter.get(id) cast
\* from a negative i64 starts the fold near 2^64).  A build with overflow
\* checks panics there; a build without them wraps.
RECURSIVE QuotaFoldOverflows(_, _, _, _)
QuotaFoldOverflows(transfers, keys, id, acc) ==
    IF keys = <<>> THEN FALSE
    ELSE LET k == Head(keys)
             v == transfers[k]
         IN IF k[1] = id
            THEN (acc >= 0 /\ acc < v) \/ QuotaFoldOverflows(transfers, Tail(keys), id, acc - v)
            ELSE IF k[2] = id
            THEN (acc < 0 /\ acc + v >= 0) \/ QuotaFoldOverflows(transfers, Tail(keys), id, acc + v)
            ELSE QuotaFoldOverflows(transfers, Tail(keys), id, acc)

BQuotaPanics(b, id) ==
    QuotaFoldOverflows(b.transfers, SortedDots(DOMAIN b.transfers), id, PNGet(b.counter, id))

BQuota(b, id) ==
    QuotaFold(b.transfers, SortedDots(DOMAIN b.transfers), id, PNGet(b.counter, id))

BAdd(b, id, delta) ==
    IF delta > 0
    THEN [b |-> [b EXCEPT !.counter = PNAdd(b.counter, id, delta)], ok |-> TRUE]
    ELSE IF delta < 0
    THEN IF U64Ge(BQuota(b, id), -delta)
         THEN [b |-> [b EXCEPT !.counter = PNAdd(b.counter, id, delta)], ok |-> TRUE]
         ELSE [b |-> b, ok |-> FALSE]
    ELSE [b |-> b, ok |-> TRUE]

AddTransfer(t, key, quota) == Put(t, key, (IF key \in DOMAIN t THEN t[key] ELSE 0) + quota)

BTransfer(b, sender, recipient, quota) ==
    IF U64Lt(quota, BQuota(b, sender))
    THEN [b |-> [counter |-> b.counter,
                 transfers |-> AddTransfer(b.transfers, <<sender, recipient>>, quota),
                 transfers_delta |->
                     Some(AddTransfer(IF IsSome(b.transfers_delta)
                                      THEN Unwrap(b.transfers_delta) ELSE EmptyMap,
                                      <<sender, recipient>>, quota))],
          ok |-> TRUE]
    ELSE [b |-> b, ok |-> FALSE]

\* the transfers loop of merge: every key of other is entered (or_default) and
\* raised when self's amount is strictly smaller
MergeTransfers(t1, t2) ==
    [k \in (DOMAIN t1) \cup (DOMAIN t2) |->
        IF k \in DOMAIN t2 /\ (IF k \in DOMAIN t1 THEN t1[k] ELSE 0) < t2[k]
        THEN t2[k]
        ELSE IF k \in DOMAIN t1 THEN t1[k] ELSE 0]

TransfersChanged(t1, t2) ==
    \E k \in DOMAIN t2 : (IF k \in DOMAIN t1 THEN t1[k] ELSE 0) < t2[k]

BMerge(self, other) ==
    LET cm == PNMerge(self.counter, other.counter)
    IN [b |-> [counter |-> cm.p,
               transfers |-> MergeTransfers(self.transfers, other.transfers),
               transfers_delta |-> self.transfers_delta],
        changed |-> cm.changed \/ TransfersChanged(self.transfers, other.transfers)]

BValue(b) == PNValue(b.counter)

\* impl DeltaConvergent for BCounter; bcounter::Delta = [counter : Option<pncounter::Delta>,
\*                                                  transfers : Option<(PID, PID) -> u64>]
BDelta(b) ==
    LET cd == PNDelta(b.counter)
    IN [b |-> [counter |-> cd.p, transfers |-> b.transfers, transfers_delta |-> None],
        delta |-> IF ~IsSome(cd.delta) /\ ~IsSome(b.transfers_delta) THEN None
                  ELSE Some([counter |-> cd.delta, transfers |-> b.transfers_delta])]

BMergeDelta(b, d) ==
    LET cm == IF IsSome(d.counter) THEN PNMergeDelta(b.counter, Unwrap(d.counter))
              ELSE [p |-> b.counter, changed |-> FALSE]
        t == IF IsSome(d.transfers) THEN Unwrap(d.transfers) ELSE EmptyMap
    IN [b |-> [counter |-> cm.p,
               transfers |-> MergeTransfers(b.transfers, t),
               transfers_delta |-> b.transfers_delta],
        changed |-> cm.changed \/ TransfersChanged(b.transfers, t)]

\* -------------------------------------------------------------- HybridTime
\* sys_time(): the wall clock with its low four bits cleared (SYS_MASK)
SysTime(wall) == wall - (wall % 16)

\* Ticks = u64, kept as an integer congruent to it modulo 2^64: a negative
\* integer v stands for 2^64 + v, so U64Max is the largest tick and adding one
\* to it wraps around to 0.
U64Max == -1

\* the order of u64, which #[derive(PartialOrd, Ord)] gives HybridTime
TicksLt(a, b) == IF (a < 0) = (b < 0) THEN a < b ELSE b < 0

TicksMax(a, b) == IF TicksLt(a, b) THEN b ELSE a

\* HybridTime::now() on a process whose LATEST holds `ticks`: the value it
\* stores and returns, computed as a build without overflow checks computes it
HNow(ticks, wall) == TicksMax(SysTime(wall), ticks) + 1

\* `current.max(ticks) + 1` leaves the u64 range: a build with overflow checks
\* panics there, a build without them wraps
HNowOverflows(ticks, wall) == TicksMax(SysTime(wall), ticks) = U64Max

\* the value HybridTime::sync(remote) stores over `ticks`
HSync(ticks, remote) == TicksMax(ticks, remote)

\* ------------------------------------------------------------- LWWRegister
\* LWWRegister = Option<Delta>, Delta = [value, timestamp, replica_id]
LDefault == None

\* an assign that, on equal timestamps, writes only over a greater stored id
LAssignOverGreaterId(l, id, value, now) ==
    IF IsSome(l)
    THEN LET e == Unwrap(l)
         IN IF e.timestamp > now THEN l
            ELSE IF e.timestamp = now
            THEN IF e.replica_id > id
                 THEN Some([e EXCEPT !.value = value, !.replica_id = id])
                 ELSE l
            ELSE Some([value |-> value, timestamp |-> now, replica_id |-> id])
    ELSE Some([value |-> value, timestamp |-> now, replica_id |-> id])

LAssign(l, id, value, now) ==
    IF IsSome(l)
    THEN LET e == Unwrap(l)
         IN IF e.timestamp > now THEN l
            ELSE IF e.timestamp = now
            THEN IF e.replica_id < id
                 THEN Some([e EXCEPT !.value = value, !.replica_id = id])
                 ELSE l
            ELSE Some([value |-> value, timestamp |-> now, replica_id |-> id])
    ELSE Some([value |-> value, timestamp |-> now, replica_id |-> id])

\* a merge that lets the greater replica id win a tie of timestamps
LDeltaMergeGreaterId(self, other) ==
    IF self.timestamp > other.timestamp THEN [d |-> self, changed |-> FALSE]
    ELSE IF self.timestamp < other.timestamp THEN [d |-> other, changed |-> TRUE]
    ELSE IF self.replica_id < other.replica_id THEN [d |-> other, changed |-> TRUE]
    ELSE [d |-> self, changed |-> FALSE]

\* impl Convergent for lww_register::Delta
LDeltaMerge(self, other) ==
    IF self.timestamp > other.timestamp THEN [d |-> self, changed |-> FALSE]
    ELSE IF self.timestamp < other.timestamp THEN [d |-> other, changed |-> TRUE]
    ELSE IF self.replica_id > other.replica_id THEN [d |-> other, changed |-> TRUE]
    ELSE [d |-> self, changed |-> FALSE]

LMergeDelta(self, other) ==
    IF IsSome(self)
    THEN [l |-> Some(LDeltaMerge(Unwrap(self), other).d),
          changed |-> LDeltaMerge(Unwrap(self), other).changed]
    ELSE [l |-> Some(other), changed |-> TRUE]

LMerge(self, other) ==
    IF IsSome(other) THEN LMergeDelta(self, Unwrap(other))
    ELSE [l |-> self, changed |-> FALSE]

\* impl DeltaConvergent for LWWRegister (delta): a clone of the current triple
LDelta(l) == [l |-> l, delta |-> l]

LValue(l) == IF IsSome(l) THEN Some(Unwrap(l).value) ELSE None

\* ------------------------------------------------------------------- ORMap
\* ORMap<K, V> = [kernel : Kernel<K>, entries : K -> V], here with V = ORSet
ODefault == [kernel |-> KernelDefault, entries |-> EmptyMap]

\* Entry::or_default
OrDefault(m, id, key) ==
    IF key \in DOMAIN m.entries THEN m
    ELSE [kernel |-> KInsert(m.kernel, id, key),
          entries |-> Put(m.entries, key, KernelDefault)]

\* m.entry(key).or_default(id).insert(id, x)
OInsertInto(m, id, key, x) ==
    LET m1 == OrDefault(m, id, key)
    IN [m1 EXCEPT !.entries = Put(m1.entries, key, KInsert(m1.entries[key], id, x))]

\* a remove that tombstones the key in the kernel and keeps its value
ORemoveKernelOnly(m, key) == [m EXCEPT !.kernel = KRemove(m.kernel, key)]

ORemove(m, key) ==
    [kernel |-> KRemove(m.kernel, key),
     entries |-> Restrict(m.entries, (DOMAIN m.entries) \ {key})]

OLen(m) == KLen(m.kernel)
OIsEmpty(m) == DOMAIN m.entries = {}
OValue(m) == [k \in DOMAIN m.entries |-> KValue(m.entries[k])]

\* the observer ORMap::merge hands to Kernel::merge_with, run over the
\* operations the kernel reports, in order; `expect` panics on a missing value
RECURSIVE OObserve(_, _, _)
OObserve(entries, other, log) ==
    IF log = <<>> THEN [entries |-> entries, panicked |-> FALSE]
    ELSE LET key == Head(log)[2]
         IN IF Head(log)[1] = "Updated"
            THEN IF key \notin DOMAIN other.entries
                 THEN [entries |-> entries, panicked |-> TRUE]
                 ELSE OObserve(Put(entries, key,
                                   KMergeWith(IF key \in DOMAIN entries THEN entries[key]
                                              ELSE KernelDefault,
                                              other.entries[key]).k),
                               other, Tail(log))
            ELSE OObserve(Restrict(entries, (DOMAIN entries) \ {key}), other, Tail(log))

\* impl DeltaConvergent for ORMap (delta): the kernel's delta, and the delta
\* of the value under every key the kernel's delta inserts
ODelta(m) ==
    IF IsSome(m.kernel.delta)
    THEN LET kd == Unwrap(m.kernel.delta)
             taken == {k \in (DOMAIN kd.inserts) \cap (DOMAIN m.entries) :
                          IsSome(m.entries[k].delta)}
         IN [m |-> [kernel |-> KDelta(m.kernel).k,
                    entries |-> [k \in DOMAIN m.entries |->
                                    IF k \in (DOMAIN kd.inserts) THEN KDelta(m.entries[k]).k
                                    ELSE m.entries[k]]],
             delta |-> Some([kernel |-> kd,
                             entries |-> [k \in taken |-> Unwrap(m.entries[k].delta)]])]
    ELSE [m |-> m, delta |-> None]

OMerge(self, other) ==
    LET km == KMergeWith(self.kernel, other.kernel)
        ob == OObserve(self.entries, other, km.log)
    IN [m |-> [kernel |-> km.k, entries |-> ob.entries],
        changed |-> km.changed,
        panicked |-> ob.panicked]

\* Entry::or_insert, or_insert_with, or_insert_with_key: a vacant key is
\* registered in the kernel and bound to the default; a present key is handed
\* out as it is
OrInsert(m, id, key, default) ==
    IF key \in DOMAIN m.entries THEN m
    ELSE [kernel |-> KInsert(m.kernel, id, key),
          entries |-> Put(m.entries, key, default)]

\* m.entry(key).and_modify(id, |v| v.insert(id, x))
OAndModify(m, id, key, x) ==
    IF key \in DOMAIN m.entries
    THEN [kernel |-> KInsert(m.kernel, id, key),
          entries |-> Put(m.entries, key, KInsert(m.entries[key], id, x))]
    ELSE m

\* the observer ORMap::merge_delta hands to Kernel::merge_with_delta
RECURSIVE OObserveDelta(_, _, _)
OObserveDelta(entries, other, log) ==
    IF log = <<>> THEN [entries |-> entries, panicked |-> FALSE]
    ELSE LET key == Head(log)[2]
         IN IF Head(log)[1] = "Updated"
            THEN IF key \notin DOMAIN other.entries
                 THEN [entries |-> entries, panicked |-> TRUE]
                 ELSE OObserveDelta(Put(entries, key,
                                        KMergeWithDelta(IF key \in DOMAIN entries
                                                        THEN entries[key]
                                                        ELSE KernelDefault,
                                                        other.entries[key]).k),
                                    other, Tail(log))
            ELSE OObserveDelta(Restrict(entries, (DOMAIN entries) \ {key}), other, Tail(log))

\* impl DeltaConvergent for ORMap (merge_delta)
OMergeDelta(self, d) ==
    LET km == KMergeWithDelta(self.kernel, d.kernel)
        ob == OObserveDelta(self.entries, d, km.log)
    IN [m |-> [kernel |-> km.k, entries |-> ob.entries],
        changed |-> km.changed,
        panicked |-> ob.panicked]

\* ---------------------------------------------------------------- Versioned
\* Versioned<T> = [origin : PID, sys_time : HybridTime, vec_time : VTime];
\* the payload takes no part in the order
VersionedNew(origin, sys_time, vec_time) ==
    [origin |-> origin, sys_time |-> sys_time, vec_time |-> vec_time]

\* impl Ord for Versioned
VersionedCmp(self, other) ==
    LET p == VPartialCmp(self.vec_time, other.vec_time)
    IN IF p = None
       THEN LET s == U64Cmp(self.sys_time, other.sys_time)
            IN IF s = "Equal" THEN U64Cmp(self.origin, other.origin) ELSE s
       ELSE Unwrap(p)

\* ------------------------------------------------- ORSet / MVRegister system
\* Three replicas hold one ORSet (or one MVRegister) each and edit it under
\* their own id.  In a "state" run they merge each other's full state; in a
\* "delta" run they extract deltas and apply extracted deltas.  Clone copies
\* A into B (a.clone() in the tests); from then on A is the only writer and
\* B follows A's deltas in extraction order.
KernelKinds == {"orset", "mvreg"}

KInitWith(s, b) ==
    /\ kind \in KernelKinds
    /\ sync = s
    /\ ks = [r \in Replicas |-> KernelDefault]
    /\ pn = EmptyMap
    /\ bc = EmptyMap
    /\ lww = EmptyMap
    /\ latest = EmptyMap
    /\ om = EmptyMap
    /\ budget = b
    /\ stopped = FALSE
    /\ forked = FALSE
    /\ chan = <<>>
    /\ applied = {}
    /\ issued = 0
    /\ clk = EmptyMap
    /\ threads = EmptyMap
    /\ hist = <<>>

MayEdit(r) == budget > 0 /\ ~stopped /\ (forked => r = A)

\* in a "mixed" run hist keeps the dots Kernel::insert returned, in call order
Returned(r) ==
    IF sync = "mixed" THEN Append(hist, DVInc(ks[r].seen, r).dot) ELSE hist

Insert(r, x) ==
    /\ kind = "orset" /\ MayEdit(r)
    /\ ks' = [ks EXCEPT ![r] = KInsert(@, r, x)]
    /\ budget' = budget - 1
    /\ hist' = Returned(r)
    /\ UNCHANGED <<kind, sync, clk, threads, pn, bc, lww, latest, om, stopped, forked, chan, applied, issued>>

Remove(r, x) ==
    /\ kind = "orset" /\ MayEdit(r)
    /\ ks' = [ks EXCEPT ![r] = KRemove(@, x)]
    /\ budget' = budget - 1
    /\ UNCHANGED <<kind, sync, clk, threads, hist, pn, bc, lww, latest, om, stopped, forked, chan, applied, issued>>

Assign(r, x) ==
    /\ kind = "mvreg" /\ MayEdit(r)
    /\ ks' = [ks EXCEPT ![r] = MVAssign(@, r, x)]
    /\ budget' = budget - 1
    /\ hist' = Returned(r)
    /\ UNCHANGED <<kind, sync, clk, threads, pn, bc, lww, latest, om, stopped, forked, chan, applied, issued>>

Merge(r, s) ==
    /\ kind \in KernelKinds /\ sync \in {"state", "mixed"} /\ r # s
    /\ ks' = [ks EXCEPT ![r] = KMergeWith(ks[r], ks[s]).k]
    /\ UNCHANGED <<kind, sync, clk, threads, hist, pn, bc, lww, latest, om, budget, stopped, forked, chan, applied, issued>>

TakeDelta(r) ==
    /\ kind \in KernelKinds /\ sync \in {"delta", "mixed"} /\ (forked => r = A)
    /\ IsSome(ks[r].delta) /\ Len(chan) < MaxMsgs
    /\ ks' = [ks EXCEPT ![r] = KDelta(@).k]
    /\ chan' = Append(chan, Unwrap(KDelta(ks[r]).delta))
    /\ UNCHANGED <<kind, sync, clk, threads, hist, pn, bc, lww, latest, om, budget, stopped, forked, applied, issued>>

ApplyDelta(r, i) ==
    /\ kind \in KernelKinds /\ sync \in {"delta", "mixed"} /\ i \in 1..Len(chan)
    /\ forked => (r = B /\ applied = 1..(i - 1))
    /\ ks' = [ks EXCEPT ![r] = KMergeWithDelta(@, chan[i]).k]
    /\ applied' = IF forked THEN applied \cup {i} ELSE applied
    /\ UNCHANGED <<kind, sync, clk, threads, hist, pn, bc, lww, latest, om, budget, stopped, forked, chan, issued>>

Clone ==
    /\ kind \in KernelKinds /\ sync = "delta" /\ ~forked
    /\ ks' = [ks EXCEPT ![B] = ks[A]]
    /\ forked' = TRUE
    /\ chan' = <<>>
    /\ applied' = {}
    /\ UNCHANGED <<kind, sync, clk, threads, hist, pn, bc, lww, latest, om, budget, stopped, issued>>

\* local operations stop; replicas go on merging
Stop ==
    /\ kind \in KernelKinds /\ sync = "state" /\ ~stopped
    /\ stopped' = TRUE
    /\ UNCHANGED <<kind, sync, clk, threads, hist, ks, pn, bc, lww, latest, om, budget, forked, chan, applied, issued>>

KInit == KInitWith("state", MaxOps)

KNext ==
    \/ \E r \in Replicas, x \in Elems : Insert(r, x)
    \/ \E r \in Replicas, x \in Elems : Remove(r, x)
    \/ \E r \in Replicas, x \in Elems : Assign(r, x)
    \/ \E r, s \in Replicas : Merge(r, s)

\* replicas exchanging full states
KSpec == KInit /\ [][KNext]_vars

DInit == KInitWith("delta", MaxOps)

DNext ==
    \/ \E r \in Replicas, x \in Elems : Insert(r, x)
    \/ \E r \in Replicas, x \in Elems : Remove(r, x)
    \/ \E r \in Replicas, x \in Elems : Assign(r, x)
    \/ \E r \in Replicas : TakeDelta(r)
    \/ \E r \in Replicas : \E i \in 1..MaxMsgs : ApplyDelta(r, i)
    \/ Clone

\* replicas exchanging deltas
DSpec == DInit /\ [][DNext]_vars

\* replicas that both merge full states and exchange deltas
MixMaxOps == 2

XInit == KInitWith("mixed", MixMaxOps)

XNext ==
    \/ \E r \in Replicas, x \in Elems : Insert(r, x)
    \/ \E r \in Replicas, x \in Elems : Remove(r, x)
    \/ \E r \in Replicas, x \in Elems : Assign(r, x)
    \/ \E r, s \in Replicas : Merge(r, s)
    \/ \E r \in Replicas : TakeDelta(r)
    \/ \E r \in Replicas : \E i \in 1..MaxMsgs : ApplyDelta(r, i)

XSpec == XInit /\ [][XNext]_vars

LiveInit == KInitWith("state", LiveMaxOps) /\ kind = "orset"

LiveNext ==
    \/ \E r \in Replicas, x \in Elems : Insert(r, x)
    \/ \E r \in Replicas, x \in Elems : Remove(r, x)
    \/ \E r, s \in Replicas : Merge(r, s)
    \/ Stop

\* every replica keeps merging every other replica's current state
MergeFairness == \A r, s \in Replicas : WF_vars(Merge(r, s))

LiveSpec == LiveInit /\ [][LiveNext]_vars /\ MergeFairness

\* ---------------------------------------------------------- counter system
\* Three replicas hold one GCounter (kept in the inc half of pn[r]) or one
\* PNCounter each and add under their own id.  In a "state" run they merge
\* each other's state and may call delta(); in a "delta" run they extract
\* deltas and apply extracted deltas.  After CClone, A is the only writer and
\* B applies A's deltas in any order, any number of times.
CounterKinds == {"gcounter", "pncounter"}

CtrAdd(c, id, d) ==
    IF kind = "gcounter" THEN [c EXCEPT !.inc = GAdd(c.inc, id, d)] ELSE PNAdd(c, id, d)

CtrMerge(a, b) ==
    IF kind = "gcounter"
    THEN [p |-> [a EXCEPT !.inc = GMerge(a.inc, b.inc).g], changed |-> GMerge(a.inc, b.inc).changed]
    ELSE PNMerge(a, b)

CtrDelta(c) ==
    IF kind = "gcounter"
    THEN [p |-> [c EXCEPT !.inc = GDelta(c.inc).g], delta |-> GDelta(c.inc).delta]
    ELSE PNDelta(c)

CtrMergeDelta(c, d) ==
    IF kind = "gcounter"
    THEN [p |-> [c EXCEPT !.inc = GMergeDelta(c.inc, d).g], changed |-> GMergeDelta(c.inc, d).changed]
    ELSE PNMergeDelta(c, d)

CtrValue(c) == IF kind = "gcounter" THEN GValue(c.inc) ELSE PNValue(c)

\* the per-replica counts a counter exposes through get()
CtrCounts(c) == [r \in Replicas |-> PNGet(c, r)]

Amounts == IF kind = "gcounter" THEN 0..MaxAdd ELSE (-MaxAdd)..MaxAdd

CInitWith(s) ==
    /\ kind \in CounterKinds
    /\ sync = s
    /\ ks = EmptyMap
    /\ pn = [r \in Replicas |-> PNDefault]
    /\ bc = EmptyMap
    /\ lww = EmptyMap
    /\ latest = EmptyMap
    /\ om = EmptyMap
    /\ budget = MaxOps
    /\ stopped = FALSE
    /\ forked = FALSE
    /\ chan = <<>>
    /\ applied = {}
    /\ issued = 0
    /\ clk = EmptyMap
    /\ threads = EmptyMap
    /\ hist = <<>>

CAdd(r, d) ==
    /\ kind \in CounterKinds /\ d \in Amounts /\ MayEdit(r)
    /\ pn' = [pn EXCEPT ![r] = CtrAdd(@, r, d)]
    /\ budget' = budget - 1
    /\ issued' = issued + d
    /\ UNCHANGED <<kind, sync, clk, threads, hist, ks, bc, lww, latest, om, stopped, forked, chan, applied>>

CMerge(r, s) ==
    /\ kind \in CounterKinds /\ sync = "state" /\ r # s
    /\ pn' = [pn EXCEPT ![r] = CtrMerge(pn[r], pn[s]).p]
    /\ UNCHANGED <<kind, sync, clk, threads, hist, ks, bc, lww, latest, om, budget, stopped, forked, chan, applied, issued>>

CTakeDelta(r) ==
    /\ kind \in CounterKinds /\ (forked => r = A)
    /\ IsSome(CtrDelta(pn[r]).delta)
    /\ sync = "delta" => Len(chan) < MaxMsgs
    /\ pn' = [pn EXCEPT ![r] = CtrDelta(@).p]
    /\ chan' = IF sync = "delta" THEN Append(chan, Unwrap(CtrDelta(pn[r]).delta)) ELSE chan
    /\ UNCHANGED <<kind, sync, clk, threads, hist, ks, bc, lww, latest, om, budget, stopped, forked, applied, issued>>

CApplyDelta(r, i) ==
    /\ kind \in CounterKinds /\ sync = "delta" /\ i \in 1..Len(chan)
    /\ forked => r = B
    /\ pn' = [pn EXCEPT ![r] = CtrMergeDelta(@, chan[i]).p]
    /\ applied' = IF forked THEN applied \cup {i} ELSE applied
    /\ UNCHANGED <<kind, sync, clk, threads, hist, ks, bc, lww, latest, om, budget, stopped, forked, chan, issued>>

CClone ==
    /\ kind \in CounterKinds /\ sync = "delta" /\ ~forked
    /\ pn' = [pn EXCEPT ![B] = pn[A]]
    /\ forked' = TRUE
    /\ chan' = <<>>
    /\ applied' = {}
    /\ UNCHANGED <<kind, sync, clk, threads, hist, ks, bc, lww, latest, om, budget, stopped, issued>>

CInit == CInitWith("state")

CNext ==
    \/ \E r \in Replicas, d \in (-MaxAdd)..MaxAdd : CAdd(r, d)
    \/ \E r, s \in Replicas : CMerge(r, s)
    \/ \E r \in Replicas : CTakeDelta(r)

\* counters exchanging full states; an extracted delta goes nowhere
CSpec == CInit /\ [][CNext]_vars

CDInit == CInitWith("delta")

CDNext ==
    \/ \E r \in Replicas, d \in (-MaxAdd)..MaxAdd : CAdd(r, d)
    \/ \E r \in Replicas : CTakeDelta(r)
    \/ \E r \in Replicas : \E i \in 1..MaxMsgs : CApplyDelta(r, i)
    \/ CClone

\* counters exchanging deltas
CDSpec == CDInit /\ [][CDNext]_vars

\* --------------------------------------------------------- BCounter system
\* Three replicas hold one BCounter each; a replica adds under its own id,
\* transfers quota from itself to another replica, and merges other states.
OtherInit(k, b) ==
    /\ kind = k
    /\ sync = "state"
    /\ ks = EmptyMap
    /\ pn = EmptyMap
    /\ budget = b
    /\ stopped = FALSE
    /\ forked = FALSE
    /\ chan = <<>>
    /\ applied = {}
    /\ issued = 0
    /\ clk = EmptyMap
    /\ threads = EmptyMap
    /\ hist = <<>>

BInit ==
    /\ OtherInit("bcounter", MaxOps)
    /\ bc = [r \in Replicas |-> BDefault]
    /\ lww = EmptyMap
    /\ latest = EmptyMap
    /\ om = EmptyMap

BCAdd(r, d) ==
    /\ kind = "bcounter" /\ MayEdit(r)
    /\ bc' = [bc EXCEPT ![r] = BAdd(@, r, d).b]
    /\ budget' = budget - 1
    /\ issued' = IF BAdd(bc[r], r, d).ok THEN issued + d ELSE issued
    /\ UNCHANGED <<kind, sync, clk, threads, hist, ks, pn, lww, latest, om, stopped, forked, chan, applied>>

BCTransfer(r, s, q) ==
    /\ kind = "bcounter" /\ MayEdit(r)
    /\ bc' = [bc EXCEPT ![r] = BTransfer(@, r, s, q).b]
    /\ budget' = budget - 1
    /\ UNCHANGED <<kind, sync, clk, threads, hist, ks, pn, lww, latest, om, stopped, forked, chan, applied, issued>>

BCMerge(r, s) ==
    /\ kind = "bcounter" /\ r # s
    /\ bc' = [bc EXCEPT ![r] = BMerge(bc[r], bc[s]).b]
    /\ UNCHANGED <<kind, sync, clk, threads, hist, ks, pn, lww, latest, om, budget, stopped, forked, chan, applied, issued>>

BNext ==
    \/ \E r \in Replicas, d \in (-BMaxAdd)..BMaxAdd : BCAdd(r, d)
    \/ \E r, s \in Replicas, q \in 0..MaxTransfer : BCTransfer(r, s, q)
    \/ \E r, s \in Replicas : BCMerge(r, s)

BSpec == BInit /\ [][BNext]_vars

\* BCounter replicas that also extract deltas and apply extracted deltas, in
\* any order and any number of times; after BCClone, A is the only writer and
\* B applies A's deltas in extraction order.
BDInit ==
    /\ kind = "bcounter"
    /\ sync = "delta"
    /\ ks = EmptyMap
    /\ pn = EmptyMap
    /\ bc = [r \in Replicas |-> BDefault]
    /\ lww = EmptyMap
    /\ latest = EmptyMap
    /\ om = EmptyMap
    /\ budget = MaxOps
    /\ stopped = FALSE
    /\ forked = FALSE
    /\ chan = <<>>
    /\ applied = {}
    /\ issued = 0
    /\ clk = EmptyMap
    /\ threads = EmptyMap
    /\ hist = <<>>

BCTakeDelta(r) ==
    /\ kind = "bcounter" /\ sync = "delta" /\ (forked => r = A)
    /\ IsSome(BDelta(bc[r]).delta) /\ Len(chan) < MaxMsgs
    /\ bc' = [bc EXCEPT ![r] = BDelta(@).b]
    /\ chan' = Append(chan, Unwrap(BDelta(bc[r]).delta))
    /\ UNCHANGED <<kind, sync, clk, threads, hist, ks, pn, lww, latest, om, budget, stopped, forked, applied, issued>>

BCApplyDelta(r, i) ==
    /\ kind = "bcounter" /\ sync = "delta" /\ i \in 1..Len(chan)
    /\ forked => (r = B /\ applied = 1..(i - 1))
    /\ bc' = [bc EXCEPT ![r] = BMergeDelta(@, chan[i]).b]
    /\ applied' = IF forked THEN applied \cup {i} ELSE applied
    /\ UNCHANGED <<kind, sync, clk, threads, hist, ks, pn, lww, latest, om, budget, stopped, forked, chan, issued>>

BCClone ==
    /\ kind = "bcounter" /\ sync = "delta" /\ ~forked
    /\ bc' = [bc EXCEPT ![B] = bc[A]]
    /\ forked' = TRUE
    /\ chan' = <<>>
    /\ applied' = {}
    /\ UNCHANGED <<kind, sync, clk, threads, hist, ks, pn, lww, latest, om, budget, stopped, issued>>

BDNext ==
    \/ \E r \in Replicas, d \in (-BMaxAdd)..BMaxAdd : BCAdd(r, d)
    \/ \E r, s \in Replicas, q \in 0..MaxTransfer : BCTransfer(r, s, q)
    \/ \E r \in Replicas : BCTakeDelta(r)
    \/ \E r \in Replicas : \E i \in 1..MaxMsgs : BCApplyDelta(r, i)
    \/ BCClone

BDSpec == BDInit /\ [][BDNext]_vars

\* ------------------------------------------------------ LWWRegister system
\* Three replicas, each in a process of its own with its own LATEST, hold one
\* LWWRegister each; assign reads HybridTime::now() of the local process.
WallTimes == {0, MaxWall}

LInit ==
    /\ OtherInit("lww", MaxOps)
    /\ bc = EmptyMap
    /\ lww = [r \in Replicas |-> LDefault]
    /\ latest = [r \in Replicas |-> 0]
    /\ om = EmptyMap

LWAssign(r, x, wall) ==
    /\ kind = "lww" /\ MayEdit(r)
    /\ latest' = [latest EXCEPT ![r] = HNow(@, wall)]
    /\ lww' = [lww EXCEPT ![r] = LAssign(@, r, x, HNow(latest[r], wall))]
    /\ hist' = <<[id |-> r, found |-> lww[r], now |-> HNow(latest[r], wall)]>>
    /\ budget' = budget - 1
    /\ UNCHANGED <<kind, sync, clk, threads, ks, pn, bc, om, stopped, forked, chan, applied, issued>>

LWMerge(r, s) ==
    /\ kind = "lww" /\ r # s
    /\ lww' = [lww EXCEPT ![r] = LMerge(lww[r], lww[s]).l]
    /\ UNCHANGED <<kind, sync, clk, threads, hist, ks, pn, bc, latest, om, budget, stopped, forked, chan, applied, issued>>

LNext ==
    \/ \E r \in Replicas, x \in Elems, wall \in WallTimes : LWAssign(r, x, wall)
    \/ \E r, s \in Replicas : LWMerge(r, s)

LSpec == LInit /\ [][LNext]_vars

\* ------------------------------------------------------------ ORMap system
\* Three replicas hold one ORMap<K, ORSet<T>> each; a replica inserts an
\* element into the set under a key (creating the entry when missing),
\* removes a key, and merges other states.  A merge whose observer panics
\* aborts the process and is left out.
OInitWith(b) ==
    /\ OtherInit("ormap", b)
    /\ bc = EmptyMap
    /\ lww = EmptyMap
    /\ latest = EmptyMap
    /\ om = [r \in Replicas |-> ODefault]

OInit == OInitWith(MaxOps)

OMInsert(r, key, x) ==
    /\ kind = "ormap" /\ MayEdit(r)
    /\ om' = [om EXCEPT ![r] = OInsertInto(@, r, key, x)]
    /\ budget' = budget - 1
    /\ UNCHANGED <<kind, sync, clk, threads, hist, ks, pn, bc, lww, latest, stopped, forked, chan, applied, issued>>

OMRemove(r, key) ==
    /\ kind = "ormap" /\ MayEdit(r)
    /\ om' = [om EXCEPT ![r] = ORemove(@, key)]
    /\ budget' = budget - 1
    /\ UNCHANGED <<kind, sync, clk, threads, hist, ks, pn, bc, lww, latest, stopped, forked, chan, applied, issued>>

OMMerge(r, s) ==
    /\ kind = "ormap" /\ r # s
    /\ ~OMerge(om[r], om[s]).panicked
    /\ om' = [om EXCEPT ![r] = OMerge(om[r], om[s]).m]
    /\ UNCHANGED <<kind, sync, clk, threads, hist, ks, pn, bc, lww, latest, budget, stopped, forked, chan, applied, issued>>

ONext ==
    \/ \E r \in Replicas, key \in Elems, x \in Elems : OMInsert(r, key, x)
    \/ \E r \in Replicas, key \in Elems : OMRemove(r, key)
    \/ \E r, s \in Replicas : OMMerge(r, s)

OSpec == OInit /\ [][ONext]_vars

\* ----------------------------------------------- ORMap system with deltas
\* Three replicas hold one ORMap<K, ORSet<T>> each and edit it through entry
\* handles: or_default alone, or_default followed by an insert into the set,
\* or_insert of a set built beforehand, and_modify inserting into the set.
\* They remove keys, extract deltas into chan, apply the deltas found there
\* and merge full states.  A merge or merge_delta that hits the `expect` of
\* its observer panics; the run stops there.
OdMaxOps == 2

ODInit ==
    /\ kind = "ormap"
    /\ sync = "delta"
    /\ ks = EmptyMap
    /\ pn = EmptyMap
    /\ bc = EmptyMap
    /\ lww = EmptyMap
    /\ latest = EmptyMap
    /\ om = [r \in Replicas |-> ODefault]
    /\ budget = OdMaxOps
    /\ stopped = FALSE
    /\ forked = FALSE
    /\ chan = <<>>
    /\ applied = {}
    /\ issued = 0
    /\ clk = EmptyMap
    /\ threads = EmptyMap
    /\ hist = <<>>

OMOrDefault(r, key) ==
    /\ kind = "ormap" /\ sync = "delta" /\ MayEdit(r)
    /\ om' = [om EXCEPT ![r] = OrDefault(@, r, key)]
    /\ budget' = budget - 1
    /\ UNCHANGED <<kind, sync, clk, threads, hist, ks, pn, bc, lww, latest, stopped, forked, chan, applied, issued>>

OMOrInsert(r, key, x) ==
    /\ kind = "ormap" /\ sync = "delta" /\ MayEdit(r)
    /\ om' = [om EXCEPT ![r] = OrInsert(@, r, key, KInsert(KernelDefault, r, x))]
    /\ budget' = budget - 1
    /\ UNCHANGED <<kind, sync, clk, threads, hist, ks, pn, bc, lww, latest, stopped, forked, chan, applied, issued>>

OMAndModify(r, key, x) ==
    /\ kind = "ormap" /\ sync = "delta" /\ MayEdit(r)
    /\ om' = [om EXCEPT ![r] = OAndModify(@, r, key, x)]
    /\ budget' = budget - 1
    /\ UNCHANGED <<kind, sync, clk, threads, hist, ks, pn, bc, lww, latest, stopped, forked, chan, applied, issued>>

OMTakeDelta(r) ==
    /\ kind = "ormap" /\ sync = "delta" /\ ~stopped
    /\ IsSome(ODelta(om[r]).delta) /\ Len(chan) < MaxMsgs
    /\ om' = [om EXCEPT ![r] = ODelta(@).m]
    /\ chan' = Append(chan, Unwrap(ODelta(om[r]).delta))
    /\ UNCHANGED <<kind, sync, clk, threads, hist, ks, pn, bc, lww, latest, budget, stopped, forked, applied, issued>>

OMApplyDelta(r, i) ==
    /\ kind = "ormap" /\ sync = "delta" /\ ~stopped /\ i \in 1..Len(chan)
    /\ ~OMergeDelta(om[r], chan[i]).panicked
    /\ om' = [om EXCEPT ![r] = OMergeDelta(@, chan[i]).m]
    /\ UNCHANGED <<kind, sync, clk, threads, hist, ks, pn, bc, lww, latest, budget, stopped, forked, chan, applied, issued>>

\* merge_delta panics in its observer
OMApplyDefect(r, i) ==
    /\ kind = "ormap" /\ sync = "delta" /\ ~stopped /\ i \in 1..Len(chan)
    /\ OMergeDelta(om[r], chan[i]).panicked
    /\ stopped' = TRUE
    /\ UNCHANGED <<kind, sync, clk, threads, hist, ks, pn, bc, lww, latest, om, budget, forked, chan, applied, issued>>

ODNext ==
    \/ \E r \in Replicas, key \in Elems : OMOrDefault(r, key)
    \/ \E r \in Replicas, key \in Elems, x \in Elems : OMInsert(r, key, x)
    \/ \E r \in Replicas, key \in Elems, x \in Elems : OMOrInsert(r, key, x)
    \/ \E r \in Replicas, key \in Elems, x \in Elems : OMAndModify(r, key, x)
    \/ \E r \in Replicas, key \in Elems : OMRemove(r, key)
    \/ \E r \in Replicas : OMTakeDelta(r)
    \/ \E r \in Replicas : \E i \in 1..MaxMsgs : OMApplyDelta(r, i)
    \/ \E r \in Replicas : \E i \in 1..MaxMsgs : OMApplyDefect(r, i)
    \/ \E r, s \in Replicas : OMMerge(r, s)

ODSpec == ODInit /\ [][ODNext]_vars

\* -------------------------------------------------------------- HLC system
\* One process with its LATEST (latest[A]) and NumThreads threads calling
\* HybridTime::now() and HybridTime::sync(remote); deserializing a HybridTime
\* is a sync with the value read.  Each load and each compare_and_swap of
\* LATEST is a step of its own; the wall clock may read anything at any time.
\* A completed call is entered in hist when its compare_and_swap succeeds.
Threads == 1..NumThreads

Remotes == {3, U64Max - 1, U64Max}

Idle == [pc |-> "idle", ticks |-> 0, wall |-> 0, remote |-> 0, start |-> 0]

HInit ==
    /\ kind = "hlc"
    /\ sync = "state"
    /\ ks = EmptyMap
    /\ pn = EmptyMap
    /\ bc = EmptyMap
    /\ lww = EmptyMap
    /\ om = EmptyMap
    /\ latest = [p \in {A} |-> 0]
    /\ budget = HlcMaxCalls
    /\ stopped = FALSE
    /\ forked = FALSE
    /\ chan = <<>>
    /\ applied = {}
    /\ issued = 0
    /\ clk = EmptyMap
    /\ threads = [t \in Threads |-> Idle]
    /\ hist = <<>>

\* a thread enters HybridTime::now()
HCallNow(t) ==
    /\ kind = "hlc" /\ threads[t].pc = "idle" /\ budget > 0
    /\ threads' = [threads EXCEPT ![t] = [Idle EXCEPT !.pc = "now_load", !.start = Len(hist)]]
    /\ budget' = budget - 1
    /\ UNCHANGED <<kind, sync, clk, hist, ks, pn, bc, lww, latest, om, stopped, forked, chan, applied, issued>>

\* LATEST.load and sys_time() of one turn of the loop
HNowLoad(t, wall) ==
    /\ kind = "hlc" /\ threads[t].pc = "now_load"
    /\ threads' = [threads EXCEPT ![t] = [@ EXCEPT !.pc = "now_cas", !.ticks = latest[A], !.wall = wall]]
    /\ UNCHANGED <<kind, sync, clk, hist, ks, pn, bc, lww, latest, om, budget, stopped, forked, chan, applied, issued>>

\* `current.max(ticks) + 1` and the compare_and_swap: on success now() returns
\* the value stored, otherwise the loop starts over
HNowCas(t) ==
    /\ kind = "hlc" /\ threads[t].pc = "now_cas"
    /\ LET new == HNow(threads[t].ticks, threads[t].wall)
       IN IF latest[A] = threads[t].ticks
          THEN /\ latest' = [latest EXCEPT ![A] = new]
               /\ hist' = Append(hist, [op |-> "now", v |-> new, start |-> threads[t].start])
               /\ threads' = [threads EXCEPT ![t] = Idle]
          ELSE /\ threads' = [threads EXCEPT ![t] = [@ EXCEPT !.pc = "now_load"]]
               /\ UNCHANGED <<latest, hist>>
    /\ UNCHANGED <<kind, sync, clk, ks, pn, bc, lww, om, budget, stopped, forked, chan, applied, issued>>

\* the same line in a build with overflow checks, when the sum overflows
HNowPanic(t) ==
    /\ kind = "hlc" /\ threads[t].pc = "now_cas"
    /\ HNowOverflows(threads[t].ticks, threads[t].wall)
    /\ threads' = [threads EXCEPT ![t] = [@ EXCEPT !.pc = "panicked"]]
    /\ UNCHANGED <<kind, sync, clk, hist, ks, pn, bc, lww, latest, om, budget, stopped, forked, chan, applied, issued>>

\* a thread enters HybridTime::sync(remote)
HCallSync(t, remote) ==
    /\ kind = "hlc" /\ threads[t].pc = "idle" /\ budget > 0
    /\ threads' = [threads EXCEPT ![t] = [Idle EXCEPT !.pc = "sync_load", !.remote = remote,
                                                       !.start = Len(hist)]]
    /\ budget' = budget - 1
    /\ UNCHANGED <<kind, sync, clk, hist, ks, pn, bc, lww, latest, om, stopped, forked, chan, applied, issued>>

HSyncLoad(t) ==
    /\ kind = "hlc" /\ threads[t].pc = "sync_load"
    /\ threads' = [threads EXCEPT ![t] = [@ EXCEPT !.pc = "sync_cas", !.ticks = latest[A]]]
    /\ UNCHANGED <<kind, sync, clk, hist, ks, pn, bc, lww, latest, om, budget, stopped, forked, chan, applied, issued>>

HSyncCas(t) ==
    /\ kind = "hlc" /\ threads[t].pc = "sync_cas"
    /\ IF latest[A] = threads[t].ticks
       THEN /\ latest' = [latest EXCEPT ![A] = HSync(threads[t].ticks, threads[t].remote)]
            /\ hist' = Append(hist, [op |-> "sync", v |-> threads[t].remote,
                                     start |-> threads[t].start])
            /\ threads' = [threads EXCEPT ![t] = Idle]
       ELSE /\ threads' = [threads EXCEPT ![t] = [@ EXCEPT !.pc = "sync_load"]]
            /\ UNCHANGED <<latest, hist>>
    /\ UNCHANGED <<kind, sync, clk, ks, pn, bc, lww, om, budget, stopped, forked, chan, applied, issued>>

HNext ==
    \/ \E t \in Threads : HCallNow(t)
    \/ \E t \in Threads : \E wall \in WallTimes : HNowLoad(t, wall)
    \/ \E t \in Threads : HNowCas(t)
    \/ \E t \in Threads : HNowPanic(t)
    \/ \E t \in Threads : \E remote \in Remotes : HCallSync(t, remote)
    \/ \E t \in Threads : HSyncLoad(t)
    \/ \E t \in Threads : HSyncCas(t)

HSpec == HInit /\ [][HNext]_vars

\* the steps thread t takes inside a call
HStep(t) ==
    \/ \E wall \in WallTimes : HNowLoad(t, wall)
    \/ HNowCas(t)
    \/ HNowPanic(t)
    \/ HSyncLoad(t)
    \/ HSyncCas(t)

\* every thread inside a call is scheduled again and again; nothing obliges
\* a thread to start a call
HFairness == \A t \in Threads : WF_vars(HStep(t))

HLiveSpec == HInit /\ [][HNext]_vars /\ HFairness

\* ------------------------------------------------------------ MTime system
\* One process holds an MTime with a row for some of the PIDs in Rows.  Rows
\* are replaced by fresh clocks, edited through get_mut (inc_by, set) and
\* merged into each other with merge_vtime.
Rows == Replicas

ClkKeys == {A, B}

MInit ==
    /\ OtherInit("mtime", ClkMaxOps)
    /\ bc = EmptyMap
    /\ lww = EmptyMap
    /\ latest = EmptyMap
    /\ om = EmptyMap

\* m.replace(id, VTime::default())
MTReplace(id) ==
    /\ kind = "mtime"
    /\ clk' = MReplace(clk, id, EmptyMap)
    /\ UNCHANGED <<kind, sync, threads, hist, ks, pn, bc, lww, latest, om, budget, stopped, forked, chan, applied, issued>>

\* m.get_mut(id).unwrap().inc_by(key, delta)
MTIncBy(id, key, delta) ==
    /\ kind = "mtime" /\ id \in DOMAIN clk /\ budget > 0
    /\ clk' = [clk EXCEPT ![id] = VIncBy(@, key, delta).vt]
    /\ budget' = budget - 1
    /\ UNCHANGED <<kind, sync, threads, hist, ks, pn, bc, lww, latest, om, stopped, forked, chan, applied, issued>>

\* m.get_mut(id).unwrap().set(dot)
MTSet(id, dot) ==
    /\ kind = "mtime" /\ id \in DOMAIN clk
    /\ clk' = [clk EXCEPT ![id] = VSet(@, dot).vt]
    /\ UNCHANGED <<kind, sync, threads, hist, ks, pn, bc, lww, latest, om, budget, stopped, forked, chan, applied, issued>>

\* m.merge_vtime(id, &time) with time a copy of the row of src
MTMergeVtime(id, src) ==
    /\ kind = "mtime" /\ src \in DOMAIN clk
    /\ clk' = MMergeVtime(clk, id, clk[src]).m
    /\ UNCHANGED <<kind, sync, threads, hist, ks, pn, bc, lww, latest, om, budget, stopped, forked, chan, applied, issued>>

MNext ==
    \/ \E id \in Rows : MTReplace(id)
    \/ \E id \in Rows : \E key \in ClkKeys : \E delta \in 0..1 : MTIncBy(id, key, delta)
    \/ \E id \in Rows : \E key \in ClkKeys : \E n \in 0..MaxSeq : MTSet(id, <<key, n>>)
    \/ \E id \in Rows : \E src \in Rows : MTMergeVtime(id, src)

MSpec == MInit /\ [][MNext]_vars

\* ----------------------------------------------------- DottedVersion system
\* Every replica holds a DottedVersion.  A and B start from a deserialized
\* version that compress() has nothing to absorb from and that holds no
\* detached dot of the replica itself; C starts from the default.  A replica
\* increments under its own id and merges the versions of the others.
\* whether compress() would absorb or drop nothing: every dot of the cloud lies
\* beyond the successor of the count of its replica
Compacted(dv) == \A d \in dv.cloud : d[2] > VGet(dv.vt, d[1]) + 1

StartVersions ==
    {dv \in [vt : UNION {[D -> 1..MaxSeq] : D \in SUBSET ClkKeys},
             cloud : SUBSET (ClkKeys \X (2..(MaxSeq + 2)))] : Compacted(dv)}

DVInit ==
    /\ kind = "dvv"
    /\ sync = "state"
    /\ ks = EmptyMap
    /\ pn = EmptyMap
    /\ bc = EmptyMap
    /\ lww = EmptyMap
    /\ latest = EmptyMap
    /\ om = EmptyMap
    /\ budget = DvvMaxOps
    /\ stopped = FALSE
    /\ forked = FALSE
    /\ chan = <<>>
    /\ applied = {}
    /\ issued = 0
    /\ threads = EmptyMap
    /\ hist = <<>>
    /\ clk \in [Replicas -> StartVersions \cup {DVDefault}]
    /\ clk[C] = DVDefault
    /\ \A r \in Replicas : \A d \in clk[r].cloud : d[1] # r

\* replica r calls inc_by(r, delta); inc(r) is inc_by(r, 1)
DVVIncBy(r, delta) ==
    /\ kind = "dvv" /\ budget > 0
    /\ clk' = [clk EXCEPT ![r] = DVIncBy(@, r, delta).dv]
    /\ budget' = budget - 1
    /\ UNCHANGED <<kind, sync, threads, hist, ks, pn, bc, lww, latest, om, stopped, forked, chan, applied, issued>>

DVVMerge(r, s) ==
    /\ kind = "dvv" /\ r # s
    /\ clk' = [clk EXCEPT ![r] = DVMerge(clk[r], clk[s]).dv]
    /\ UNCHANGED <<kind, sync, threads, hist, ks, pn, bc, lww, latest, om, budget, stopped, forked, chan, applied, issued>>

DVNext ==
    \/ \E r \in Replicas : \E delta \in 0..2 : DVVIncBy(r, delta)
    \/ \E r \in Replicas : \E s \in Replicas : DVVMerge(r, s)

DVSpec == DVInit /\ [][DVNext]_vars

\* ------------------------------------------------------------ every type
\* a run of any one of the convergent types, replicas exchanging full states
\* (the nested ORMap runs with a smaller budget of local operations)

\* -------------------------------------------------------- Versioned system
\* A process builds Versioned values from an origin, a hybrid timestamp and a
\* vector clock and holds them (clk is the set of values held), as the
\* operation-based MVRegister holds them in a BTreeSet ordered by cmp.
VerMaxHeld == 3
VerMaxSys == 2
VerMaxSeq == 2

VerClocks == UNION {[S -> 1..VerMaxSeq] : S \in SUBSET ClkKeys}

VerInit ==
    /\ kind = "versioned"
    /\ sync = "state"
    /\ ks = EmptyMap
    /\ pn = EmptyMap
    /\ bc = EmptyMap
    /\ lww = EmptyMap
    /\ latest = EmptyMap
    /\ om = EmptyMap
    /\ budget = 0
    /\ stopped = FALSE
    /\ forked = FALSE
    /\ chan = <<>>
    /\ applied = {}
    /\ issued = 0
    /\ clk = {}
    /\ threads = EmptyMap
    /\ hist = <<>>

VerNew(origin, sys_time, vec_time) ==
    /\ kind = "versioned" /\ Cardinality(clk) < VerMaxHeld
    /\ clk' = clk \cup {VersionedNew(origin, sys_time, vec_time)}
    /\ UNCHANGED <<kind, sync, threads, hist, ks, pn, bc, lww, latest, om, budget, stopped, forked, chan, applied, issued>>

VerNext ==
    \E origin \in ClkKeys, sys_time \in 1..VerMaxSys, vec_time \in VerClocks :
        VerNew(origin, sys_time, vec_time)

VerSpec == VerInit /\ [][VerNext]_vars

Init == KInit \/ CInit \/ BInit \/ LInit \/ OInitWith(UnionMaxOps)

Next == KNext \/ CNext \/ BNext \/ LNext \/ ONext

Spec == Init /\ [][Next]_vars

\* ------------------------------------------------------------------ claims
KMerged(a, b) == KMergeWith(a, b).k

\* all replicas show the same value and no merge between them reports a change
Converged ==
    \A r, s \in Replicas :
        KValue(ks[r]) = KValue(ks[s]) /\ ~KMergeWith(ks[r], ks[s]).changed

\* C1: once local operations have stopped, replicas that keep merging each
\* other's state eventually reach, and stay in, a state where all values are
\* equal and every further merge returns false.
C1_EventualConvergence == [](stopped => <>[]Converged)

\* C2: add-wins.  When replica a holds x under a dot that replica b has not
\* seen, x is still in a's value after a.merge(b), whatever b removed.
C2_AddWins ==
    \A a, b \in Replicas : \A x \in DOMAIN ks[a].entries :
        (kind = "orset" /\ \E i \in 1..Len(ks[a].entries[x]) : ~DVContains(ks[b].seen, ks[a].entries[x][i]))
            => x \in KValue(KMerged(ks[a], ks[b]))

\* C3: merge commutes at the level of value: a.merge(b) and b.merge(a) leave
\* the same value.
C3_MergeCommutative ==
    \A a, b \in Replicas :
        KValue(KMerged(ks[a], ks[b])) = KValue(KMerged(ks[b], ks[a]))

\* C4: merge is associative at the level of value: (a + b) + c and a + (b + c)
\* have the same value.
C4_MergeAssociative ==
    \A a, b, c \in Replicas :
        KValue(KMerged(KMerged(ks[a], ks[b]), ks[c]))
            = KValue(KMerged(ks[a], KMerged(ks[b], ks[c])))

\* the VTimes a replica holds in the current run
HeldVTimes(r) ==
    IF kind \in KernelKinds THEN {ks[r].seen.vt}
    ELSE IF kind \in CounterKinds THEN {pn[r].inc.v, pn[r].dec.v}
    ELSE IF kind = "bcounter" THEN {bc[r].counter.inc.v, bc[r].counter.dec.v}
    ELSE IF kind = "ormap" THEN {om[r].kernel.seen.vt}
    ELSE {}

\* C5: for VTime, GCounter, PNCounter, BCounter, LWWRegister, MVRegister,
\* ORSet and ORMap, merging an identical copy into a replica returns false
\* and leaves the replica's value unchanged.
C5_MergeIdempotent ==
    \A r \in Replicas :
        /\ \A v \in HeldVTimes(r) : ~VMerge(v, v).changed /\ VMerge(v, v).vt = v
        /\ kind \in KernelKinds =>
               /\ ~KMergeWith(ks[r], ks[r]).changed
               /\ KValue(KMergeWith(ks[r], ks[r]).k) = KValue(ks[r])
        /\ kind \in CounterKinds =>
               /\ ~GMerge(pn[r].inc, pn[r].inc).changed
               /\ GValue(GMerge(pn[r].inc, pn[r].inc).g) = GValue(pn[r].inc)
               /\ ~PNMerge(pn[r], pn[r]).changed
               /\ PNValue(PNMerge(pn[r], pn[r]).p) = PNValue(pn[r])
        /\ kind = "bcounter" =>
               /\ ~BMerge(bc[r], bc[r]).changed
               /\ BValue(BMerge(bc[r], bc[r]).b) = BValue(bc[r])
        /\ kind = "lww" =>
               /\ ~LMerge(lww[r], lww[r]).changed
               /\ LValue(LMerge(lww[r], lww[r]).l) = LValue(lww[r])
        /\ kind = "ormap" =>
               /\ ~OMerge(om[r], om[r]).changed
               /\ ~OMerge(om[r], om[r]).panicked
               /\ OValue(OMerge(om[r], om[r]).m) = OValue(om[r])

\* an ORMap replica that, with every local operation spent, holds a non-empty
\* set under some key, has merged another replica's state, and merges an
\* identical copy of itself without reporting a change
C5_Witness ==
    /\ kind = "ormap" /\ budget = 0
    /\ \E r \in Replicas :
        /\ \E k \in DOMAIN om[r].entries : KValue(om[r].entries[k]) # {}
        /\ \E s \in Replicas \ {r} : VGet(om[r].kernel.seen.vt, s) > 0
        /\ ~OMerge(om[r], om[r]).changed

\* C6: a counter's merge returns true exactly when some per-replica count of
\* the receiver changed.
C6_MergeReportsChange ==
    \A r, s \in Replicas :
        kind \in CounterKinds =>
            (CtrMerge(pn[r], pn[s]).changed
                <=> CtrCounts(CtrMerge(pn[r], pn[s]).p) # CtrCounts(pn[r]))

\* replica r holds every count that any replica holds
FullyMerged(r) ==
    \A s, id \in Replicas :
        /\ GGet(pn[r].inc, id) >= GGet(pn[s].inc, id)
        /\ GGet(pn[r].dec, id) >= GGet(pn[s].dec, id)

\* C7: with every replica adding under its own id, a replica that has merged
\* in everything the others hold shows the sum of all increments minus the
\* sum of all decrements issued anywhere, whatever the order of the merges.
C7_CountersConverge ==
    \A r \in Replicas :
        (kind \in CounterKinds /\ FullyMerged(r)) => CtrValue(pn[r]) = issued

C7_Witness ==
    /\ kind = "pncounter"
    /\ \A r \in Replicas : FullyMerged(r) /\ PNGet(pn[r], r) # 0
    /\ \E r \in Replicas : PNGet(pn[r], r) < 0

\* B has applied every delta A extracted since the clone
Followed == forked /\ applied = 1..Len(chan)

\* C8: B starts as a copy of A's state; A performs local inserts / removes /
\* assigns and extracts deltas, and B applies every one of them, in order and
\* once each; then B's value equals A's value.
C8_KernelDeltaFaithful ==
    (kind \in KernelKinds /\ Followed /\ ~IsSome(ks[A].delta))
        => KValue(ks[B]) = KValue(ks[A])

\* C9: B applies, in any order and any number of times, every delta a counter
\* A extracted after its adds; then B's value equals A's value.
C9_CounterDeltaFaithful ==
    (kind \in CounterKinds /\ Followed /\ ~IsSome(CtrDelta(pn[A]).delta))
        => CtrValue(pn[B]) = CtrValue(pn[A])

C9_Witness ==
    /\ kind \in CounterKinds /\ Followed /\ ~IsSome(CtrDelta(pn[A]).delta)
    /\ Len(chan) = 2 /\ chan[1] # chan[2]
    /\ CtrValue(pn[A]) # 0

\* C10: applying a delta a second time, at once or after another delta of the
\* same source, leaves the replica's entries as they were and returns false.
C10_DeltaIdempotent ==
    \A r \in Replicas : \A i, j \in 1..Len(chan) :
        LET once == KMergeWithDelta(ks[r], chan[i])
            again == KMergeWithDelta(once.k, chan[i])
            next == KMergeWithDelta(once.k, chan[j])
            late == KMergeWithDelta(next.k, chan[i])
        IN kind \in KernelKinds =>
            /\ again.k.entries = once.k.entries /\ ~again.changed
            /\ (forked /\ i < j) => (late.k.entries = next.k.entries /\ ~late.changed)

\* C11: deltas commute.  For any two extracted deltas, applying the first and
\* then the second to a replica leaves the same value as applying them in the
\* opposite order.
C11_DeltasCommute ==
    \A r \in Replicas : \A i, j \in 1..Len(chan) :
        kind \in KernelKinds =>
            KValue(KMergeWithDelta(KMergeWithDelta(ks[r], chan[i]).k, chan[j]).k)
                = KValue(KMergeWithDelta(KMergeWithDelta(ks[r], chan[j]).k, chan[i]).k)

\* value() of the replica's state x in the current run
ValueOf(x) ==
    IF kind \in KernelKinds THEN KValue(x)
    ELSE IF kind \in CounterKinds THEN CtrValue(x)
    ELSE IF kind = "bcounter" THEN BValue(x)
    ELSE OValue(x)

\* the outcome [state, delta] of delta() on the replica's state x
DeltaOf(x) ==
    IF kind \in KernelKinds THEN [state |-> KDelta(x).k, delta |-> KDelta(x).delta]
    ELSE IF kind \in CounterKinds THEN [state |-> CtrDelta(x).p, delta |-> CtrDelta(x).delta]
    ELSE IF kind = "bcounter" THEN [state |-> BDelta(x).b, delta |-> BDelta(x).delta]
    ELSE [state |-> ODelta(x).m, delta |-> ODelta(x).delta]

StateOf(r) ==
    IF kind \in KernelKinds THEN ks[r]
    ELSE IF kind \in CounterKinds THEN pn[r]
    ELSE IF kind = "bcounter" THEN bc[r]
    ELSE om[r]

\* C12: for GCounter, PNCounter, BCounter, ORSet, MVRegister and ORMap, a
\* second delta() right after a delta() returns None, and delta() leaves
\* value() as it was.
C12_DeltaHandsOffOnce ==
    \A r \in Replicas :
        kind # "lww" =>
            LET first == DeltaOf(StateOf(r))
                second == DeltaOf(first.state)
            IN /\ second.delta = None
               /\ ValueOf(first.state) = ValueOf(StateOf(r))
               /\ ValueOf(second.state) = ValueOf(StateOf(r))

\* an ORMap whose delta() hands out a kernel delta together with the delta of
\* a nested set, while the replica shows a non-empty value
C12_Witness ==
    /\ kind = "ormap"
    /\ \E r \in Replicas :
        /\ IsSome(ODelta(om[r]).delta)
        /\ Unwrap(ODelta(om[r]).delta).entries # EmptyMap
        /\ \E k \in DOMAIN om[r].entries : KValue(om[r].entries[k]) # {}
        /\ \E s \in Replicas \ {r} : VGet(om[r].kernel.seen.vt, s) > 0

\* C13: a second delta() on an LWWRegister, with no assign or merge since the
\* first, returns None.
C13_LwwDeltaHandsOffOnce ==
    \A r \in Replicas :
        kind = "lww" => LDelta(LDelta(lww[r]).l).delta = None

\* C14: with every replica adding and transferring under its own id, the value
\* every BCounter replica holds (increments minus decrements) is never negative.
C14_NonNegative ==
    \A r \in Replicas : kind = "bcounter" => BValue(bc[r]) >= 0

\* the quota as the specification defines it: the counter owned by r, plus the
\* transfers towards r, minus the transfers away from r
TransferAt(t, s, d) == IF <<s, d>> \in DOMAIN t THEN t[<<s, d>>] ELSE 0
Inbound(t, r) == TransferAt(t, A, r) + TransferAt(t, B, r) + TransferAt(t, C, r)
Outbound(t, r) == TransferAt(t, r, A) + TransferAt(t, r, B) + TransferAt(t, r, C)
DefinedQuota(b, r) == PNGet(b.counter, r) + Inbound(b.transfers, r) - Outbound(b.transfers, r)

\* C15: in every state a replica holds and for every id r, quota(r) is computed
\* without leaving the u64 range and equals counter.get(r) plus the inbound
\* transfers of r minus its outbound transfers, self-transfers included.
C15_QuotaFormula ==
    \A h \in Replicas : \A r \in Replicas :
        kind = "bcounter" =>
            /\ ~BQuotaPanics(bc[h], r)
            /\ BQuota(bc[h], r) = DefinedQuota(bc[h], r)

\* C16: on every state a replica holds, add(r, d) with d < 0 returns (it does
\* not panic inside quota), returns an error exactly when quota(r) < |d|, and
\* a failed add leaves the whole BCounter, hence value() and every quota, as
\* it was.
C16_AddFailsExactly ==
    \A h \in Replicas : \A r \in Replicas : \A d \in (-BMaxAdd)..(-1) :
        kind = "bcounter" =>
            LET res == BAdd(bc[h], r, d)
            IN /\ ~BQuotaPanics(bc[h], r)
               /\ res.ok <=> U64Ge(BQuota(bc[h], r), -d)
               /\ ~res.ok => res.b = bc[h]
               /\ res.ok => BValue(res.b) = BValue(bc[h]) + d

\* C17: when a replica s transfers q from itself to d, transfer returns (no
\* panic inside quota); it fails, with the state unchanged, exactly when
\* quota(s) <= q; a successful transfer adds q to transfers[(s, d)] and keeps
\* value(); and once replica d has merged the sender's state, quota(d) there is
\* computed without overflow and is larger by q than it is without the transfer.
C17_TransferMovesQuota ==
    \A s \in Replicas : \A d \in Replicas : \A q \in 0..BMaxAdd :
        kind = "bcounter" =>
            LET res == BTransfer(bc[s], s, d, q)
                with == BMerge(bc[d], res.b).b
                without == BMerge(bc[d], bc[s]).b
            IN /\ ~BQuotaPanics(bc[s], s)
               /\ res.ok <=> U64Lt(q, BQuota(bc[s], s))
               /\ ~res.ok => res.b = bc[s]
               /\ res.ok =>
                    /\ TransferAt(res.b.transfers, s, d) = TransferAt(bc[s].transfers, s, d) + q
                    /\ BValue(res.b) = BValue(bc[s])
                    /\ ~BQuotaPanics(with, d)
                    /\ BQuota(with, d) = BQuota(without, d) + q

\* C18: when b started as a copy of a and has applied with merge_delta, in
\* extraction order, every delta a has extracted, and a holds nothing that is
\* still to be extracted, b's transfers and every quota at b equal those at a,
\* as they do after b.merge(a).
C18_TransferDeltasFaithful ==
    (kind = "bcounter" /\ sync = "delta" /\ Followed /\ ~IsSome(BDelta(bc[A]).delta)) =>
        /\ bc[B].transfers = bc[A].transfers
        /\ \A r \in Replicas : BQuota(bc[B], r) = BQuota(bc[A], r)
        /\ bc[B].transfers = BMerge(bc[B], bc[A]).b.transfers

\* C19: every value a now() call returned is strictly greater than every value
\* returned by a now() call, or passed to a sync() call, that completed before
\* it; in particular no two now() calls returned the same value.
C19_NowStrictlyMonotone ==
    kind = "hlc" =>
        \A j \in 1..Len(hist) :
            hist[j].op = "now" => \A i \in 1..(j - 1) : TicksLt(hist[i].v, hist[j].v)

\* C20: LATEST never decreases; when a sync(remote) completes, LATEST is at
\* least remote; and a now() that started after a sync(remote) completed returns
\* a value greater than remote.
C20_SyncAdvances ==
    [][kind = "hlc" =>
         /\ ~TicksLt(latest'[A], latest[A])
         /\ Len(hist') > Len(hist) =>
              LET e == hist'[Len(hist')]
              IN /\ e.op = "sync" => ~TicksLt(latest'[A], e.v)
                 /\ e.op = "now" =>
                      \A i \in 1..e.start : hist[i].op = "sync" => TicksLt(hist[i].v, e.v)]_vars

\* the lattice order of vector clocks, an absent key read as 0
VLeq(a, b) == \A r \in Replicas : VGet(a, r) <= VGet(b, r)
LatticeCmp(a, b) ==
    IF VLeq(a, b) /\ VLeq(b, a) THEN Some("Equal")
    ELSE IF VLeq(a, b) THEN Some("Less")
    ELSE IF VLeq(b, a) THEN Some("Greater")
    ELSE None

\* C21: for every two vector clocks the process holds, whatever their key
\* sets, partial_cmp returns the lattice order: Equal, Less, Greater, or None
\* for concurrent clocks.
C21_PartialCmpIsLatticeOrder ==
    kind = "mtime" =>
        \A i \in DOMAIN clk : \A j \in DOMAIN clk :
            VPartialCmp(clk[i], clk[j]) = LatticeCmp(clk[i], clk[j])

\* the component values of a vector clock
Counts(v) == [r \in Replicas |-> VGet(v, r)]

\* C22: for every vector clocks a, b, c the process holds, a.merge(b) leaves in
\* a the larger of the two counts of every replica and returns true exactly
\* when some count of a grew; merging b again changes nothing, and the counts
\* do not depend on the order or the grouping of merges.
C22_MergeIsComponentwiseMax ==
    kind = "mtime" =>
        \A i \in DOMAIN clk : \A j \in DOMAIN clk : \A k \in DOMAIN clk :
            LET a == clk[i]
                b == clk[j]
                c == clk[k]
                ab == VMerge(a, b)
            IN /\ \A r \in Replicas : VGet(ab.vt, r) = Max(VGet(a, r), VGet(b, r))
               /\ ab.changed <=> \E r \in Replicas : VGet(ab.vt, r) > VGet(a, r)
               /\ Counts(VMerge(ab.vt, b).vt) = Counts(ab.vt)
               /\ ~VMerge(ab.vt, b).changed
               /\ Counts(ab.vt) = Counts(VMerge(b, a).vt)
               /\ Counts(VMerge(ab.vt, c).vt) = Counts(VMerge(a, VMerge(b, c).vt).vt)

\* three clocks, pairwise concurrent and over different key sets, are held
C22_Witness ==
    /\ kind = "mtime"
    /\ DOMAIN clk = Rows
    /\ \A i \in Rows : \A j \in Rows \ {i} :
           /\ VMerge(clk[i], clk[j]).changed
           /\ DOMAIN clk[i] # DOMAIN clk[j]

\* C24: for a matrix clock holding at least one row and for every replica r,
\* min() holds at r the least, and max() the greatest, of the counts the rows
\* hold at r, an absent entry read as 0.
C24_MinMaxComponentwise ==
    (kind = "mtime" /\ DOMAIN clk # {}) =>
        \A r \in Replicas :
            /\ \E i \in DOMAIN clk : VGet(MMin(clk), r) = VGet(clk[i], r)
            /\ \A i \in DOMAIN clk : VGet(MMin(clk), r) <= VGet(clk[i], r)
            /\ \E i \in DOMAIN clk : VGet(MMax(clk), r) = VGet(clk[i], r)
            /\ \A i \in DOMAIN clk : VGet(MMax(clk), r) >= VGet(clk[i], r)

\* C23: in the DottedVersion of every replica, after every inc, inc_by and
\* merge, no dot (r, n) of the cloud has n <= contiguous[r] + 1.
C23_CloudCompacted ==
    kind = "dvv" => \A r \in Replicas : Compacted(clk[r])

\* whether entry e beats entry f: the greater timestamp, then the lesser id
LwwBeats(e, f) ==
    \/ e.timestamp > f.timestamp
    \/ e.timestamp = f.timestamp /\ e.replica_id < f.replica_id

\* C25: for every registers a, b, c the replicas hold, a.merge(b) leaves in a
\* the entry with the greater timestamp, on equal timestamps the one with the
\* lesser replica id; the merged entry does not depend on the order or the
\* grouping of the merges, and merging b once more returns false.
C25_LwwMergeOrder ==
    kind = "lww" =>
        \A i \in Replicas : \A j \in Replicas : \A k \in Replicas :
            LET a == lww[i]
                b == lww[j]
                c == lww[k]
                ab == LMerge(a, b)
            IN /\ (IsSome(a) /\ IsSome(b)) =>
                    /\ LwwBeats(Unwrap(b), Unwrap(a)) => (ab.l = b /\ ab.changed)
                    /\ LwwBeats(Unwrap(a), Unwrap(b)) => (ab.l = a /\ ~ab.changed)
                    /\ ab.l \in {a, b}
               /\ ab.l = LMerge(b, a).l
               /\ LMerge(ab.l, c).l = LMerge(a, LMerge(b, c).l).l
               /\ ~LMerge(ab.l, b).changed
               /\ ~LMerge(ab.l, a).changed

\* two replicas wrote different values at the same timestamp, and a third
\* replica that merged both holds the entry of the lesser replica id
C25_Witness ==
    /\ kind = "lww"
    /\ \E i \in Replicas : \E j \in Replicas : \E k \in Replicas \ {i, j} :
        /\ IsSome(lww[i]) /\ IsSome(lww[j])
        /\ Unwrap(lww[i]).timestamp = Unwrap(lww[j]).timestamp
        /\ Unwrap(lww[i]).replica_id < Unwrap(lww[j]).replica_id
        /\ Unwrap(lww[i]).value # Unwrap(lww[j]).value
        /\ lww[k] = lww[i]
        /\ ~LMerge(lww[k], lww[j]).changed

EntryDots(k) == UNION {Range(k.entries[v]) : v \in DOMAIN k.entries}

\* neither register has seen a dot the other one holds
Unaware(k1, k2) ==
    /\ \A d \in EntryDots(k1) : ~DVContains(k2.seen, d)
    /\ \A d \in EntryDots(k2) : ~DVContains(k1.seen, d)

\* k1 holds only payloads written at r, and has seen every dot k2 holds
Supersedes(k1, r, k2) ==
    /\ k1.entries # EmptyMap
    /\ \A d \in EntryDots(k1) : d[1] = r
    /\ \A d \in EntryDots(k2) : DVContains(k1.seen, d)

HandsOut(r, key) ==
    \/ OMOrDefault(r, key)
    \/ \E x \in Elems : OMInsert(r, key, x) \/ OMOrInsert(r, key, x)
    \/ \E x \in Elems : key \in DOMAIN om[r].entries /\ OMAndModify(r, key, x)

\* after the step the kernel of r's map holds key under a dot of r's that r
\* had not seen before the step, and so does the pending delta of the kernel
Registered(r, key) ==
    \E d \in {r} \X (1..(OdMaxOps + 1)) :
        /\ ~DVContains(om[r].kernel.seen, d)
        /\ key \in DOMAIN om'[r].kernel.entries
        /\ d \in Range(om'[r].kernel.entries[key])
        /\ IsSome(om'[r].kernel.delta)
        /\ key \in DOMAIN Unwrap(om'[r].kernel.delta).inserts
        /\ d \in Range(Unwrap(om'[r].kernel.delta).inserts[key])

\* C28: every entry operation that hands out the value under a key for
\* mutation (or_default, or_insert and its variants, and_modify on a present
\* key), whether the key was vacant or present, registers a fresh dot of the
\* calling replica for the key in the kernel's entries and pending delta.
C28_EditRegistersDot ==
    [][\A r \in Replicas, key \in Elems : HandsOut(r, key) => Registered(r, key)]_vars

\* ---- ORMap: convergence of nested values ----

\* C29: for maps of sets, whatever edits through entry handles (repeated
\* edits of a present key among them), removes and merges made them, once r
\* has merged s's state and s has merged r's, the two value() maps are equal,
\* key by key and element by element.
C29_NestedConvergence ==
    \A r, s \in Replicas :
        (kind = "ormap" /\ r # s /\ ~OMerge(om[r], om[s]).panicked) =>
            LET r1 == OMerge(om[r], om[s]).m
            IN ~OMerge(om[s], r1).panicked =>
                  OValue(OMerge(om[s], r1).m) = OValue(r1)

\* ---- ORMap: the observers' expect ----

\* C30: on the maps the replicas hold and the deltas they extracted, neither
\* merge of another replica's state nor merge_delta of an extracted delta
\* hits the `expect` of its observer.
C30_NoDefect ==
    kind = "ormap" =>
        /\ \A r, s \in Replicas : ~OMerge(om[r], om[s]).panicked
        /\ \A r \in Replicas : \A i \in 1..Len(chan) :
              ~OMergeDelta(om[r], chan[i]).panicked

\* ---- Versioned: the order of cmp ----

Reverse(o) == IF o = "Less" THEN "Greater" ELSE IF o = "Greater" THEN "Less" ELSE o

\* C31: cmp on the Versioned values held is a total order: cmp(x, y) is the
\* reverse of cmp(y, x), and x < y with y < z gives x < z.
C31_VersionedTotalOrder ==
    kind = "versioned" =>
        \A x, y, z \in clk :
            /\ VersionedCmp(x, y) = Reverse(VersionedCmp(y, x))
            /\ (VersionedCmp(x, y) = "Less" /\ VersionedCmp(y, z) = "Less")
                  => VersionedCmp(x, z) = "Less"

\* ---- Kernel: invariants, dots, observer ----

\* C32: every dot stored under a key of a kernel's entries is contained in
\* the kernel's seen, in every state reached by inserts, removes, clears,
\* merges and delta applications.
C32_DotsSeen ==
    \A r \in Replicas :
        kind \in KernelKinds => \A d \in EntryDots(ks[r]) : DVContains(ks[r].seen, d)

\* C33: every key of a kernel's entries has a non-empty dot list, and no dot
\* occurs twice in it.
C33_EntriesWellFormed ==
    \A r \in Replicas :
        kind \in KernelKinds =>
            \A v \in DOMAIN ks[r].entries :
                /\ Len(ks[r].entries[v]) > 0
                /\ Cardinality(Range(ks[r].entries[v])) = Len(ks[r].entries[v])

\* a replica holds a key under two dots while an extracted delta carries a
\* removal
C33_Witness ==
    /\ kind \in KernelKinds /\ sync = "mixed"
    /\ \E r \in Replicas : \E v \in DOMAIN ks[r].entries : Len(ks[r].entries[v]) >= 2
    /\ \E i \in 1..Len(chan) : chan[i].removals # <<>>

\* C34: with every replica inserting under its own id, the dots the inserts
\* returned are pairwise different, and those of one replica have strictly
\* increasing sequence numbers in call order.
C34_DotsUnique ==
    (kind \in KernelKinds /\ sync = "mixed") =>
        \A i, j \in 1..Len(hist) :
            i < j => /\ hist[i] # hist[j]
                     /\ hist[i][1] = hist[j][1] => hist[i][2] < hist[j][2]

\* one replica inserted twice, and another replica took over its first dot
\* in between or afterwards
C34_Witness ==
    /\ kind \in KernelKinds /\ sync = "mixed"
    /\ Len(hist) = 2 /\ hist[1][1] = hist[2][1]
    /\ \E s \in Replicas : s # hist[1][1] /\ DVContains(ks[s].seen, hist[1])

\* C35: when ORSet replica b has seen every dot under which a holds x and
\* does not hold x itself (it removed x), merging a's state into b leaves x
\* absent from b's value.
C35_ObservedRemoveStays ==
    \A a, b \in Replicas : \A x \in DOMAIN ks[a].entries :
        (/\ kind = "orset" /\ a # b
         /\ x \notin KValue(ks[b])
         /\ \A d \in Range(ks[a].entries[x]) : DVContains(ks[b].seen, d))
            => x \notin KValue(KMerged(ks[b], ks[a]))

\* C36: merge_with_delta leaves seen as it was, whatever the delta carries;
\* seen changes only in a local insert and in a full-state merge.
C36_DeltaLeavesSeen ==
    [][\A r \in Replicas :
          /\ (\E i \in 1..MaxMsgs : ApplyDelta(r, i)) => ks'[r].seen = ks[r].seen
          /\ ks'[r].seen # ks[r].seen =>
                \/ \E x \in Elems : Insert(r, x) \/ Assign(r, x)
                \/ \E s \in Replicas : Merge(r, s)]_vars

\* a replica holds, under a key, a dot that a delta brought and seen lacks
C36_Witness ==
    /\ kind \in KernelKinds /\ sync = "mixed"
    /\ \E r \in Replicas : \E d \in EntryDots(ks[r]) :
          d[1] # r /\ ~DVContains(ks[r].seen, d)

\* keys of the observer calls of one kind, in call order
KeysOf(log, op) ==
    LET sel == SelectSeq(log, LAMBDA e : e[1] = op)
    IN [i \in 1..Len(sel) |-> sel[i][2]]

StrictlyAscending(q) == \A i, j \in 1..Len(q) : i < j => q[i] < q[j]

\* C37: in one merge_with or merge_with_delta the observer gets Updated at
\* most once per key and Removed at most once per key, each kind in ascending
\* key order, and in merge_with no key gets both.
C37_ObserverContract ==
    kind \in KernelKinds =>
        /\ \A r, s \in Replicas :
              LET log == KMergeWith(ks[r], ks[s]).log
              IN /\ StrictlyAscending(KeysOf(log, "Updated"))
                 /\ StrictlyAscending(KeysOf(log, "Removed"))
                 /\ Range(KeysOf(log, "Updated")) \cap Range(KeysOf(log, "Removed")) = {}
        /\ \A r \in Replicas : \A i \in 1..Len(chan) :
              LET log == KMergeWithDelta(ks[r], chan[i]).log
              IN /\ StrictlyAscending(KeysOf(log, "Updated"))
                 /\ StrictlyAscending(KeysOf(log, "Removed"))

\* ---- ORMap: the two indexes ----

\* C38: in every map a replica holds, the keys of the kernel are the keys of
\* the value map, and len() is 0 exactly when is_empty() is true.
C38_IndexesAgree ==
    \A r \in Replicas :
        kind = "ormap" =>
            /\ DOMAIN om[r].kernel.entries = DOMAIN om[r].entries
            /\ (OLen(om[r]) = 0 <=> OIsEmpty(om[r]))

\* a replica has seen a dot under which another replica still holds a key,
\* and holds that key in neither index: a remove went through both
C38_Witness ==
    /\ kind = "ormap" /\ sync = "delta"
    /\ \E r, t \in Replicas : \E key \in DOMAIN om[t].kernel.entries :
          /\ r # t
          /\ \E d \in Range(om[t].kernel.entries[key]) : DVContains(om[r].kernel.seen, d)
          /\ key \notin DOMAIN om[r].kernel.entries
          /\ key \notin DOMAIN om[r].entries

\* ---- VTime: zip, min, max ----

Min(x, y) == IF x <= y THEN x ELSE y

\* C40: for every two vector clocks the process holds, zip yields the ids of
\* the union of their keys, each once and in ascending order, with the count
\* of either clock (0 for a clock that lacks the id); min and max are the
\* clocks over that union holding the smaller and the larger count.
C40_ZipOverUnion ==
    kind = "mtime" =>
        \A i \in DOMAIN clk : \A j \in DOMAIN clk :
            LET a == clk[i]
                b == clk[j]
                z == VZip(a, b)
                keys == (DOMAIN a) \cup (DOMAIN b)
            IN /\ [n \in 1..Len(z) |-> z[n][1]] = SortedSeq(keys)
               /\ \A n \in 1..Len(z) :
                     z[n][2] = VGet(a, z[n][1]) /\ z[n][3] = VGet(b, z[n][1])
               /\ VMin(a, b) = [r \in keys |-> Min(VGet(a, r), VGet(b, r))]
               /\ VMax(a, b) = [r \in keys |-> Max(VGet(a, r), VGet(b, r))]

\* two clocks are held of which each counts a replica the other one lacks
C40_Witness ==
    /\ kind = "mtime"
    /\ \E i \in DOMAIN clk : \E j \in DOMAIN clk :
          /\ \E r \in (DOMAIN clk[i]) \ (DOMAIN clk[j]) : clk[i][r] > 0
          /\ \E r \in (DOMAIN clk[j]) \ (DOMAIN clk[i]) : clk[j][r] > 0

\* ---- HybridTime: progress ----

\* some thread is inside now() or sync() and has not returned
Pending == \E t \in Threads : threads[t].pc # "idle"

\* C39: under fair scheduling of the threads, whenever a call is pending some
\* call completes; and the compare_and_swap of a thread that meets in LATEST
\* the value it loaded ends the call in that iteration.
C39_LockFree ==
    /\ \A n \in 0..HlcMaxCalls :
          (kind = "hlc" /\ Pending /\ Len(hist) = n) ~> (Len(hist) > n)
    /\ [][\A t \in Threads :
             ((HNowCas(t) \/ HSyncCas(t)) /\ latest[A] = threads[t].ticks)
                => (threads'[t] = Idle /\ Len(hist') = Len(hist) + 1)]_vars

====
